---- MODULE Spec2Model ----
(***************************************************************************)
(* Verification model of the CSTBox device network runtime (pycstbox.hal). *)
(*                                                                         *)
(* The parts of this module, each with its own specification:              *)
(*   - SpecDev    : HalDevice.create_events (hal/device.py), the filtering *)
(*                  of the readings of one device into events;             *)
(*   - Spec       : CoordinatorServiceObject.start/stop and the polling    *)
(*                  worker _PollingThread.run (hal/network.py);            *)
(*   - SpecEmit   : the emission of events by the event manager            *)
(*                  (evtmgr.py);                                           *)
(*   - SpecSerial : start and stop of the serial coordinator               *)
(*                  (hal/c_serial.py);                                     *)
(*   - SpecSend   : SerialCoordinatorServiceObject.send_command;           *)
(*   - SpecCfg    : the device network configuration (devcfg.py);          *)
(*   - SpecSvc    : DeviceNetworkSvc.load_configuration (hal/network.py);  *)
(*   - SpecBroker : the configuration broker (cfgbroker.py);               *)
(*   - SpecReg    : the registry of the driver classes (hal/__init__.py,   *)
(*                  hal/drivers/__init__.py);                              *)
(*   - SpecSc     : the service container (service.py);                    *)
(*   - SpecEx     : the export job (export.py);                            *)
(*   - SpecFsa    : the timed automaton in simulated time (timedfsa.py).   *)
(*                                                                         *)
(* Python's None is modelled by the empty tuple and a defined value v by  *)
(* the tuple <<v>>.  Python dicts are functions whose DOMAIN is the key set. *)
(* Times are whole seconds.  Readings are fixed-point numbers counted in   *)
(* units of 10^-RawDigits.                                                 *)
(***************************************************************************)
EXTENDS Integers, Sequences, FiniteSets, TLC

None == <<>>
Some(v) == <<v>>
Val(s) == s[1]

\* dict.get(k, default)
Get(d, k, default) == IF k \in DOMAIN d THEN d[k] ELSE default

\* d[k] = v on a dict
Put(d, k, v) == [x \in DOMAIN d \cup {k} |-> IF x = k THEN v ELSE d[x]]

\* del d[k]
Del(d, k) == [x \in DOMAIN d \ {k} |-> d[x]]

EmptyDict == [x \in {} |-> 0]

Abs(x) == IF x < 0 THEN -x ELSE x

RECURSIVE Pow10(_)
Pow10(n) == IF n <= 0 THEN 1 ELSE 10 * Pow10(n - 1)

\* ---- sysutils.parse_period; a string is a sequence of characters
DigitChars == <<"0", "1", "2", "3", "4", "5", "6", "7", "8", "9">>
IsDigit(c) == \E i \in 1..Len(DigitChars) : DigitChars[i] = c
DigitValue(c) == (CHOOSE i \in 1..Len(DigitChars) : DigitChars[i] = c) - 1

\* int(digits)
RECURSIVE ToInt(_)
ToInt(digits) ==
    IF digits = <<>> THEN 0
    ELSE 10 * ToInt(SubSeq(digits, 1, Len(digits) - 1))
         + DigitValue(digits[Len(digits)])

\* str.lower() on the characters used here
Lower(str) ==
    [i \in 1..Len(str) |->
        CASE str[i] = "S" -> "s" [] str[i] = "M" -> "m" [] str[i] = "H" -> "h"
          [] str[i] = "X" -> "x" [] OTHER -> str[i]]

\* parse_period(s): [ok |-> TRUE, value |-> seconds], or ok = FALSE for
\* the ValueError of an invalid string; regexp ^([\d]+)([smh]?)$
ParsePeriod(str) ==
    IF str = <<>> THEN [ok |-> TRUE, value |-> 0]
    ELSE LET last == str[Len(str)]
             has_unit == last \in {"s", "m", "h"}
             digits == IF has_unit THEN SubSeq(str, 1, Len(str) - 1) ELSE str
             factor == IF last = "m" THEN 60 ELSE IF last = "h" THEN 3600 ELSE 1
         IN  IF digits # <<>> /\ \A i \in 1..Len(digits) : IsDigit(digits[i])
             THEN [ok |-> TRUE, value |-> ToInt(digits) * factor]
             ELSE [ok |-> FALSE, value |-> 0]

\* ---- Python floats (IEEE 754 doubles).  A reading k counted in units of
\* 1/scale (scale a power of 10) is held by the program as the double
\* nearest to k/scale.  The operators below give, with small integers, what
\* the double arithmetic of the program computes on them.

RECURSIVE Pow2(_)
Pow2(n) == IF n <= 0 THEN 1 ELSE 2 * Pow2(n - 1)

\* 2^e modulo m
RECURSIVE Pow2Mod(_, _)
Pow2Mod(e, m) == IF e <= 0 THEN 1 % m ELSE (2 * Pow2Mod(e - 1, m)) % m

\* the odd part 5^n of scale = 10^n, and n
RECURSIVE FivePart(_)
FivePart(scale) == IF scale <= 1 THEN 1 ELSE 5 * FivePart(scale \div 10)
RECURSIVE Digits(_)
Digits(scale) == IF scale <= 1 THEN 0 ELSE 1 + Digits(scale \div 10)

\* binary exponent j of k/scale (k > 0): 2^j <= k/scale < 2^(j+1)
RECURSIVE BinadeUp(_, _, _)
BinadeUp(k, scale, j) ==
    IF scale * Pow2(j + 1) <= k THEN BinadeUp(k, scale, j + 1) ELSE j
RECURSIVE BinadeDown(_, _, _)
BinadeDown(k, scale, t) ==
    IF scale <= k * Pow2(t) THEN -t ELSE BinadeDown(k, scale, t + 1)
Binade(k, scale) ==
    IF k >= scale THEN BinadeUp(k, scale, 0) ELSE BinadeDown(k, scale, 1)

\* number of binary places below the point of the 53-bit mantissa of
\* k/scale, the factor 2^n of the scale taken out
MantissaShift(k, scale) == 52 - Binade(k, scale) - Digits(scale)

\* representation error of the double nearest to k/scale, in units of
\* 2^(Binade - 52) / 5^n: the nearest multiple of 5^n minus k * 2^shift
RoundingError(k, scale) ==
    LET five == FivePart(scale)
        m == ((k % five) * Pow2Mod(MantissaShift(k, scale), five)) % five
    IN  IF 2 * m <= five THEN -m ELSE five - m

\* whether the mantissa of the double nearest to k/scale is even
EvenMantissa(k, scale) ==
    LET five == FivePart(scale)
        n == ((k % (2 * five)) * Pow2Mod(MantissaShift(k, scale), 2 * five)
              + RoundingError(k, scale) + 2 * five) % (2 * five)
    IN  n = 0

Min3(x, y, z) ==
    IF x <= y /\ x <= z THEN x ELSE IF y <= z THEN y ELSE z

\* abs(float(a/scale) - float(b/scale)) <= float(d/scale) as computed in
\* double arithmetic, for a, b, d >= 0: decided by the decimal values when
\* |a - b| # d, by the representation errors of the three doubles and the
\* rounding (to nearest, ties to even) of the subtraction when |a - b| = d
FloatAbsDiffLeq(a, b, d, scale) ==
    LET hi == IF a >= b THEN a ELSE b
        lo == IF a >= b THEN b ELSE a
    IN  IF hi - lo # d THEN hi - lo < d
        ELSE IF lo = 0 \/ d = 0 THEN TRUE
        ELSE LET jmin == Min3(Binade(hi, scale), Binade(lo, scale), Binade(d, scale))
                 err(k) == RoundingError(k, scale) * Pow2(Binade(k, scale) - jmin)
                 delta == err(hi) - err(lo) - err(d)
                 ulp == FivePart(scale) * Pow2(Binade(d, scale) - jmin)
             IN  \/ 2 * delta < ulp
                 \/ 2 * delta = ulp /\ EvenMantissa(d, scale)

(***************************************************************************)
(* Part 1 - HalDevice (hal/device.py)                                      *)
(***************************************************************************)

\* ---- bounds of the device model
RawDigits == 1          \* readings are counted in tenths
MaxDevTicks == 2        \* number of clock advances explored
StartTime == 10000      \* wall clock (s since the epoch) when the device is built

\* ---- program constants
DEFAULT_PRECISION == 3
DEFAULT_EVENT_TTL == 7200

Outputs == {"o1", "o2"}
\* iteration order of self._cfg.outputs (a dict: arbitrary but fixed)
OutputsOrder == <<"o1", "o2">>
VarNames == {"v1", "v2"}

\* raw readings of an output, in tenths: 0.9, 1.2, 1.5
RawValues == {9, 12, 15}
Readings == {None} \cup {Some(v) : v \in RawValues}

\* the clock advances by one second or by a whole default TTL
TimeSteps == {1, DEFAULT_EVENT_TTL}

\* per output settings as read from the configuration (prec and delta_min
\* may be absent)
Rounded1 == [enabled |-> TRUE, varname |-> "v1", prec |-> Some(0), delta_min |-> None]
Filtered1 == [enabled |-> TRUE, varname |-> "v1", prec |-> None, delta_min |-> Some(3)]
Disabled2 == [enabled |-> FALSE, varname |-> "v2", prec |-> None, delta_min |-> None]
ZeroDelta2 == [enabled |-> TRUE, varname |-> "v2", prec |-> Some(0), delta_min |-> Some(0)]
Shared2 == [enabled |-> TRUE, varname |-> "v1", prec |-> None, delta_min |-> None]

\* the device configurations explored: the settings of o1 and o2 and the
\* configured events_ttl (absent, "0" or "2s")
DeviceSettings ==
    { [o1 |-> Rounded1, o2 |-> Disabled2, events_ttl |-> Some(<<"0">>)],
      [o1 |-> Filtered1, o2 |-> ZeroDelta2, events_ttl |-> None],
      [o1 |-> Rounded1, o2 |-> Shared2, events_ttl |-> Some(<<"2", "s">>)] }

VARIABLES
    outputs_cfg,        \* HalDevice._cfg.outputs after __init__
    events_ttl,         \* HalDevice._events_ttl
    prev_values,        \* HalDevice._prev_values
    last_event_times,   \* HalDevice._last_event_times
    dev_now,            \* time.time() as seen by the device
    dev_ticks,          \* number of clock advances so far
    output_values,      \* argument of the last create_events call
    dev_events,         \* list returned by the last create_events call
    sent,               \* per var_name, the last event produced and its time
    out_last            \* per output, the time of its last produced event when
                        \* every call since has given the output a reading

dev_vars == <<outputs_cfg, events_ttl, prev_values, last_event_times, dev_now,
              dev_ticks, output_values, dev_events, sent, out_last>>

\* round(raw, prec) of Python 2: half away from zero, result in tenths
Round(raw, prec) ==
    IF prec >= RawDigits THEN raw
    ELSE LET q == Pow10(RawDigits - prec)
             r == ((2 * Abs(raw) + q) \div (2 * q)) * q
         IN  IF raw < 0 THEN -r ELSE r

\* HalDevice.__init__: defaults of the generic output parameters
InitOutputCfg(s) ==
    [enabled |-> s.enabled, varname |-> s.varname,
     prec |-> IF s.prec = None THEN DEFAULT_PRECISION ELSE Val(s.prec),
     delta_min |-> s.delta_min]

\* HalDevice.__init__: parse_period of the events_ttl setting, defaulted
\* when the setting is absent or gives 0
InitEventsTtl(s) ==
    IF s = None THEN DEFAULT_EVENT_TTL
    ELSE LET ttl == ParsePeriod(Val(s)).value
         IN  IF ttl = 0 THEN DEFAULT_EVENT_TTL ELSE ttl

\* the values an output can take once rounded, and the delta_min configured
RoundedValues == {Round(v, p) : v \in RawValues, p \in 0..DEFAULT_PRECISION}
DeltaMins ==
    {Val(c.delta_min) :
        c \in {x \in {Rounded1, Filtered1, Disabled2, ZeroDelta2, Shared2} :
                  x.delta_min # None}}

\* "abs(value - prev) <= delta_min" on doubles, tabulated
SmallVariation ==
    [value \in RoundedValues, prev \in RoundedValues, delta_min \in DeltaMins |->
        FloatAbsDiffLeq(value, prev, delta_min, Pow10(RawDigits))]

FilterToPrev(value, prev, delta_min) == IF prev # None THEN Val(prev) ELSE value

\* small variations filtering: "if delta_min and prev is not None and
\* abs(value - prev) <= delta_min: value = prev"
FilterValue(value, prev, delta_min) ==
    IF delta_min # None /\ Val(delta_min) # 0 /\ prev # None
       /\ SmallVariation[value, Val(prev), Val(delta_min)]
    THEN Val(prev) ELSE value

EmitAlways(value, prev, evt_age, ttl) == TRUE

EmitOnChangeOnly(value, prev, evt_age, ttl) == Some(value) # prev

\* "if value != prev or (self._events_ttl is not None and evt_age >= self._events_ttl)"
ShouldEmit(value, prev, evt_age, ttl) ==
    Some(value) # prev \/ evt_age >= ttl

\* one iteration of the loop of create_events on the state
\* st = [prev, last, events]
CreateEventsStep(st, output, cfg, values, ttl, now) ==
    LET output_cfg == cfg[output]
        prev == IF output \in DOMAIN st.prev THEN Some(st.prev[output]) ELSE None
        raw_value == values[output]
    IN  IF raw_value = None THEN st
        ELSE LET rounded == Round(Val(raw_value), output_cfg.prec)
                 var_name == output_cfg.varname
                 value == FilterValue(rounded, prev, output_cfg.delta_min)
                 evt_age == now - Get(st.last, var_name, 0)
             IN  IF ShouldEmit(value, prev, evt_age, ttl)
                 THEN [prev |-> Put(st.prev, output, value),
                       last |-> Put(st.last, var_name, now),
                       events |-> Append(st.events,
                                    [output |-> output, var_name |-> var_name,
                                     value |-> value])]
                 ELSE st

\* the loop of create_events over the enabled outputs, from index i
RECURSIVE CreateEventsLoop(_, _, _, _, _, _)
CreateEventsLoop(i, st, cfg, values, ttl, now) ==
    IF i > Len(OutputsOrder) THEN st
    ELSE LET output == OutputsOrder[i]
             nxt == IF cfg[output].enabled
                    THEN CreateEventsStep(st, output, cfg, values, ttl, now)
                    ELSE st
         IN  CreateEventsLoop(i + 1, nxt, cfg, values, ttl, now)

\* HalDevice.create_events(output_values)
CreateEvents(prev, last, cfg, values, ttl, now) ==
    CreateEventsLoop(1, [prev |-> prev, last |-> last, events |-> <<>>],
                     cfg, values, ttl, now)

\* the channel history kept for the checks: per var_name the last event
\* produced and whether it repeated the (output, value) of the event
\* produced before it for the same var_name
RECURSIVE RecordSent(_, _, _)
RecordSent(hist, evs, i) ==
    IF i > Len(evs) THEN hist
    ELSE LET e == evs[i]
             p == hist[e.var_name]
             rec == [output |-> e.output, value |-> e.value,
                     repeat |-> /\ p # None
                                /\ Val(p).output = e.output
                                /\ Val(p).value = e.value]
         IN  RecordSent([hist EXCEPT ![e.var_name] = Some(rec)], evs, i + 1)

EventOutputs(evs) == {evs[i].output : i \in 1..Len(evs)}

\* state of the device after HalDevice.__init__ with the settings s
InitDevWith(s) ==
    /\ outputs_cfg = [o \in Outputs |->
                        InitOutputCfg(IF o = "o1" THEN s.o1 ELSE s.o2)]
    /\ events_ttl = InitEventsTtl(s.events_ttl)
    /\ prev_values = EmptyDict
    /\ last_event_times = EmptyDict
    /\ dev_now = StartTime
    /\ dev_ticks = 0
    /\ output_values = [o \in Outputs |-> None]
    /\ dev_events = <<>>
    /\ sent = [v \in VarNames |-> None]
    /\ out_last = [o \in Outputs |-> None]

\* the wall clock advances
DevTick(d) ==
    /\ dev_ticks < MaxDevTicks
    /\ dev_ticks' = dev_ticks + 1
    /\ dev_now' = dev_now + d
    /\ UNCHANGED <<outputs_cfg, events_ttl, prev_values, last_event_times,
                   output_values, dev_events, sent, out_last>>

\* one call of create_events with the readings values
DevCreateEvents(values) ==
    LET res == CreateEvents(prev_values, last_event_times, outputs_cfg, values,
                            events_ttl, dev_now)
    IN  /\ output_values' = values
        /\ prev_values' = res.prev
        /\ last_event_times' = res.last
        /\ dev_events' = res.events
        /\ sent' = RecordSent(sent, res.events, 1)
        /\ out_last' = [o \in Outputs |->
                          IF o \in EventOutputs(res.events)
                          THEN Some(dev_now)
                          ELSE IF values[o] = None THEN None ELSE out_last[o]]
        /\ UNCHANGED <<outputs_cfg, events_ttl, dev_now, dev_ticks>>

(***************************************************************************)
(* Part 2 - coordinator and polling worker (hal/network.py)                *)
(***************************************************************************)

\* ---- bounds of the worker model
MaxElapsed == 2         \* seconds of wall clock explored after construction
MaxPolls == 3           \* poll() invocations explored, all devices together
MaxEvents == 1          \* events returned by one poll()

\* ---- program constants
DFLT_POLL_PERIOD == 1
DFLT_POLL_REQ_INTERVAL == 0
DFLT_TASK_CHECKING_PERIOD == 1

Devs == {"d1", "d2"}

\* start.get_duration_setting: the setting is None when the device
\* configuration has no such attribute
GetDurationSetting(setting, default_value) ==
    IF setting = None THEN default_value
    ELSE LET r == ParsePeriod(Lower(Val(setting)))
         IN  IF r.ok THEN r.value ELSE default_value

\* the coordinator configurations explored: per device, whether its HAL
\* device is pollable and its "polling" setting (absent, "", "2", "X"), and
\* the poll_req_interval setting (absent or 1)
CoordSettings ==
    { [pollable |-> {"d1", "d2"},
       polling |-> [d \in Devs |-> IF d = "d1" THEN None ELSE Some(<<"2">>)],
       poll_req_interval |-> None],
      [pollable |-> {"d1"},
       polling |-> [d \in Devs |-> IF d = "d1" THEN Some(<<>>) ELSE None],
       poll_req_interval |-> None],
      [pollable |-> {"d1", "d2"},
       polling |-> [d \in Devs |-> IF d = "d1" THEN Some(<<"2">>) ELSE Some(<<"X">>)],
       poll_req_interval |-> Some(1)] }

\* PollingStats()
NewStats == [total_poll |-> 0, comm_errs |-> 0, crc_errs |-> 0,
             unexp_errs |-> 0, recovered |-> 0]

StatFields == {"total_poll", "comm_errs", "crc_errs", "unexp_errs", "recovered"}

\* contents of the stats file found by the worker: none, or the stats of d1
\* saved by a previous run
StatsFiles ==
    { EmptyDict,
      [d \in {"d1"} |-> [total_poll |-> 7, comm_errs |-> 2, crc_errs |-> 0,
                         unexp_errs |-> 0, recovered |-> 1]] }

\* what a call of dev.haldev.poll() can do: return a list of n events,
\* return None, or raise; e.message is "" for an exception built without
\* a message
Outcomes ==
    {[kind |-> "events", n |-> n, msg |-> ""] : n \in 0..MaxEvents}
    \cup { [kind |-> "none", n |-> 0, msg |-> ""],
           [kind |-> "CommunicationError", n |-> 0, msg |-> "timeout"],
           [kind |-> "ValueError", n |-> 0, msg |-> "bad crc"],
           [kind |-> "TypeError", n |-> 0, msg |-> ""],
           [kind |-> "PollingError", n |-> 0, msg |-> "io"] }

VARIABLES
    coord_cfg,          \* the coordinator configuration (settings)
    stats_file,         \* content of the polling stats file
    started,            \* progress of CoordinatorServiceObject.start()
    evtmgr,             \* CoordinatorServiceObject._evtmgr is not None
    poll_req_interval,  \* CoordinatorServiceObject._poll_req_interval
    tasks,              \* _PollingThread._tasks
    terminate,          \* _PollingThread._terminate
    pc,                 \* position of the polling worker
    now,                \* time.time()
    sched_queue,        \* run(): sched_queue
    polling_start_time, \* run(): polling_start_time
    retried,            \* run(): retried
    errors,             \* run(): errors
    dev_stats,          \* run(): dev_stats
    stats,              \* run(): stats (of the task being processed)
    cur,                \* run(): task being processed (None outside)
    events,             \* run(): number of events still to be emitted
    wake_at,            \* end of the time.sleep() in progress
    stop_pc,            \* progress of CoordinatorServiceObject.stop()
    join_deadline,      \* end of the join timeout of stop()
    channel,            \* per device, events emitted on the sensor channel
    polls,              \* per device, poll() invocations made by the worker
    last_outcome,       \* per device, outcome of its last poll and emission
    transitions,        \* per device, number of error -> ok transitions
    tick_polls,         \* per device, poll() invocations in the current tick
    tick_fails          \* per device, failed polls in the current tick

coord_vars == <<coord_cfg, stats_file, started, evtmgr, poll_req_interval, tasks,
                terminate, pc, now, sched_queue, polling_start_time, retried,
                errors, dev_stats, stats, cur, events, wake_at, stop_pc,
                join_deadline, channel, polls, last_outcome, transitions,
                tick_polls, tick_fails>>

VARIABLES
    ser_pc,             \* progress of SerialCoordinatorServiceObject.start() and
                        \* stop() ("base": the coordinator is not a serial one)
    serial_port,        \* SerialCoordinatorServiceObject._serial_port
    rx_thread,          \* state of the serial listener thread
    serial_lock,        \* holder of _serial_lock (None when free)
    snd_pc,             \* per caller, its position in send_command
    snd_cb,             \* per caller, whether its call has a callback
    snd_calls,          \* number of send_command calls begun
    wire,               \* what the callers did on the transport, in order
    emit_lock,          \* holder of EventManagerObject._emitLock
    emit_pc,            \* per caller, its position in emitEvent/emitFullEvent
    emit_stamp,         \* per caller, the timestamp of the event being emitted
    emit_calls,         \* number of emit calls begun
    emit_clock,         \* time.time() * 1000 of the event manager
    bus,                \* steps of the emissions on the channel, in order
    netcfg,             \* the DeviceNetworkConfiguration (coordinator id -> Coordinator)
    cfg_file,           \* parsed content of the configuration file
    cfg_last,           \* the last configuration operation and its outcome
    cfg_ops,            \* number of configuration operations done
    broker_cfg,         \* BrokerObject._cfg (None before the broker is created)
    signals,            \* the changed signals delivered, in order
    broker_reply,       \* reply to the last get_device_by_uid request
    svc_cfg,            \* the configuration given to DeviceNetworkSvc
    svc_objects,        \* the service objects added to the container
    svc_err             \* outcome of DeviceNetworkSvc.load_configuration

VARIABLES
    reg_modules,        \* the candidate driver modules, in name order
    registry,           \* hal.drivers._global_registry
    reg_pc,             \* progress of get_hal_device_classes()
    reg_next,           \* index of the next module the discovery imports
    reg_loaded,         \* the modules in sys.modules (imported without error)
    reg_inst            \* last driver lookup of _configure_devices

VARIABLES
    sc_name,            \* ServiceContainer._name
    sc_objs,            \* ServiceContainer._objects
    sc_pc,              \* position of ServiceContainer.start()
    sc_i,               \* start(): index of the object being started
    sc_started,         \* start(): started
    sc_loop,            \* ServiceContainer._loop is set
    sc_quits,           \* number of calls of _loop.quit()
    sc_terminating,     \* ServiceContainer._terminating
    sc_lock,            \* holder of _terminate_lock (None when free)
    sc_frames,          \* the terminate() calls in progress on the main
                        \* thread, the innermost last
    sc_calls,           \* number of terminate requests so far
    sc_stops,           \* per service object, the number of stop() calls
    sc_events           \* the service state events emitted, in order

VARIABLES
    ex_in,              \* EventsExportJob.run: max_try and what the callbacks do
    ex_pc,              \* position in run()
    ex_code,            \* run(): error_code
    ex_try,             \* run(): cur_try
    ex_sends,           \* number of send_data calls
    ex_error,           \* the ExportError caught (its subcode), or None
    ex_ret              \* value returned by run(), or None

VARIABLES
    fsa_time,           \* TimedFSA._simulated_time
    fsa_timer,          \* TimedFSA._timer (None, or the _SimulatedTimer)
    fsa_timers,         \* number of timers created
    fsa_fired,          \* the timers the callback of which was called, in order
    fsa_err,            \* what the last call raised ("none" if it returned)
    fsa_ops             \* number of calls made

serial_vars == <<ser_pc, serial_port, rx_thread>>
send_vars == <<serial_lock, snd_pc, snd_cb, snd_calls, wire>>
emit_vars == <<emit_lock, emit_pc, emit_stamp, emit_calls, emit_clock, bus>>
netcfg_vars == <<netcfg, cfg_file, cfg_last, cfg_ops>>
broker_vars == <<broker_cfg, signals, broker_reply>>
svc_vars == <<svc_cfg, svc_objects, svc_err>>
conf_vars == <<netcfg_vars, broker_vars, svc_vars>>
reg_vars == <<reg_modules, registry, reg_pc, reg_next, reg_loaded, reg_inst>>
sc_vars == <<sc_name, sc_objs, sc_pc, sc_i, sc_started, sc_loop, sc_quits,
             sc_terminating, sc_lock, sc_frames, sc_calls, sc_stops, sc_events>>
ex_vars == <<ex_in, ex_pc, ex_code, ex_try, ex_sends, ex_error, ex_ret>>
fsa_vars == <<fsa_time, fsa_timer, fsa_timers, fsa_fired, fsa_err, fsa_ops>>
lib_vars == <<reg_vars, sc_vars, ex_vars, fsa_vars>>
ext_vars == <<serial_vars, send_vars, emit_vars, conf_vars, lib_vars>>

vars == <<dev_vars, coord_vars, ext_vars>>

\* the threads calling send_command, and those calling the event manager
Senders == {"s1", "s2"}
Emitters == {"e1", "e2"}

\* a coordinator that is not a serial one, nobody sending
SerialAtRest ==
    /\ ser_pc = "base"
    /\ serial_port = "none"
    /\ rx_thread = "none"

SendAtRest ==
    /\ serial_lock = None
    /\ snd_pc = [c \in Senders |-> "idle"]
    /\ snd_cb = [c \in Senders |-> FALSE]
    /\ snd_calls = 0
    /\ wire = <<>>

EmitAtRest ==
    /\ emit_lock = None
    /\ emit_pc = [c \in Emitters |-> "idle"]
    /\ emit_stamp = [c \in Emitters |-> None]
    /\ emit_calls = 0
    /\ emit_clock = 0
    /\ bus = <<>>

\* an empty configuration and configuration file, no broker
NetCfgAtRest ==
    /\ netcfg = EmptyDict
    /\ cfg_file = [top |-> "dict", coordinators |-> EmptyDict]
    /\ cfg_last = [op |-> "none", cid |-> "", did |-> "", newid |-> "", err |-> "none"]
    /\ cfg_ops = 0

BrokerAtRest ==
    /\ broker_cfg = None
    /\ signals = <<>>
    /\ broker_reply = None

\* a device network service that has loaded nothing
SvcAtRest ==
    /\ svc_cfg = EmptyDict
    /\ svc_objects = EmptyDict
    /\ svc_err = "none"

ConfAtRest == NetCfgAtRest /\ BrokerAtRest /\ SvcAtRest

RegAtRest ==
    /\ reg_modules = <<>>
    /\ registry = EmptyDict
    /\ reg_pc = "idle"
    /\ reg_next = 1
    /\ reg_loaded = {}
    /\ reg_inst = None

ScAtRest ==
    /\ sc_name = "svc"
    /\ sc_objs = <<>>
    /\ sc_pc = "init"
    /\ sc_i = 1
    /\ sc_started = <<>>
    /\ sc_loop = FALSE
    /\ sc_quits = 0
    /\ sc_terminating = FALSE
    /\ sc_lock = None
    /\ sc_frames = <<>>
    /\ sc_calls = 0
    /\ sc_stops = <<>>
    /\ sc_events = <<>>

ExAtRest ==
    /\ ex_in = EmptyDict
    /\ ex_pc = "none"
    /\ ex_code = 0
    /\ ex_try = 0
    /\ ex_sends = 0
    /\ ex_error = None
    /\ ex_ret = None

FsaAtRest ==
    /\ fsa_time = 0
    /\ fsa_timer = None
    /\ fsa_timers = 0
    /\ fsa_fired = <<>>
    /\ fsa_err = "none"
    /\ fsa_ops = 0

LibAtRest == RegAtRest /\ ScAtRest /\ ExAtRest /\ FsaAtRest

\* start() and stop() of CoordinatorServiceObject are called directly, or
\* by the overriding methods of a serial coordinator
SuperStartCalled == ser_pc \in {"base", "start_super"}
SuperStopCalled == ser_pc \in {"base", "stop_super"}

\* _configure_coordinator: float(getattr(cfg, 'poll_req_interval', 0))
ConfigurePollReqInterval(setting) ==
    IF setting = None THEN DFLT_POLL_REQ_INTERVAL ELSE Val(setting)

\* whether the sequence of tasks q is sorted by increasing period
SortedByPeriod(q) ==
    \A i \in 1..Len(q), j \in 1..Len(q) : i < j => q[i].period <= q[j].period

\* start(): the task lists sched_tasks.sort() can give: one PollTask per
\* pollable device, sorted by period (the order of equal periods is the
\* iteration order of the dict self._devices)
SchedTasks(cfg) ==
    {q \in [1..Cardinality(cfg.pollable) ->
              {[dev |-> d,
                period |-> GetDurationSetting(cfg.polling[d], DFLT_POLL_PERIOD)]
               : d \in cfg.pollable}] :
        /\ \A i \in 1..Len(q), j \in 1..Len(q) : i # j => q[i].dev # q[j].dev
        /\ SortedByPeriod(q)}

AtNoInsert(queue, when, task) ==
    IF queue = <<>> \/ queue[Len(queue)].when <= when
    THEN Append(queue, [when |-> when, task |-> task])
    ELSE queue

AtAppendOnly(queue, when, task) == Append(queue, [when |-> when, task |-> task])

\* run().at(_when, _task): insertion in the chronologically sorted queue
At(queue, when, task) ==
    LET schedule == [when |-> when, task |-> task]
    IN  IF queue # <<>>
        THEN IF queue[Len(queue)].when <= when
             THEN Append(queue, schedule)
             ELSE LET i == CHOOSE k \in 1..Len(queue) :
                              /\ queue[k].when > when
                              /\ \A j \in 1..(k - 1) : ~(queue[j].when > when)
                  IN  SubSeq(queue, 1, i - 1) \o <<schedule>>
                      \o SubSeq(queue, i, Len(queue))
        ELSE <<schedule>>

\* run(): "for task in self._tasks: at(0, task)"
RECURSIVE SeedQueue(_, _, _)
SeedQueue(queue, tsks, i) ==
    IF i > Len(tsks) THEN queue
    ELSE SeedQueue(At(queue, 0, tsks[i]), tsks, i + 1)

InitCoordWith(c, f) ==
    /\ coord_cfg = c
    /\ stats_file = f
    /\ started = "no"
    /\ evtmgr = FALSE
    /\ poll_req_interval = ConfigurePollReqInterval(c.poll_req_interval)
    /\ tasks = <<>>
    /\ terminate = FALSE
    /\ pc = "none"
    /\ now = StartTime
    /\ sched_queue = <<>>
    /\ polling_start_time = 0
    /\ retried = {}
    /\ errors = EmptyDict
    /\ dev_stats = EmptyDict
    /\ stats = NewStats
    /\ cur = None
    /\ events = 0
    /\ wake_at = 0
    /\ stop_pc = "idle"
    /\ join_deadline = 0
    /\ channel = [d \in Devs |-> 0]
    /\ polls = [d \in Devs |-> 0]
    /\ last_outcome = [d \in Devs |-> "none"]
    /\ transitions = [d \in Devs |-> 0]
    /\ tick_polls = [d \in Devs |-> 0]
    /\ tick_fails = [d \in Devs |-> 0]

cfg_vars == <<coord_cfg, stats_file, poll_req_interval>>
stop_vars == <<stop_pc, join_deadline>>
ghost_vars == <<polls, last_outcome, transitions, tick_polls, tick_fails>>

\* start(), the event manager being reachable: connects to the sensor
\* channel, builds the sorted task list and starts the polling thread
StartOk ==
    /\ SuperStartCalled
    /\ started = "no"
    /\ started' = "yes"
    /\ evtmgr' = TRUE
    /\ \E q \in SchedTasks(coord_cfg) : tasks' = q
    /\ terminate' = FALSE
    /\ pc' = "spawned"
    /\ UNCHANGED <<cfg_vars, now, sched_queue, polling_start_time, retried,
                   errors, dev_stats, stats, cur, events, wake_at, stop_vars,
                   channel, ghost_vars, dev_vars, ext_vars>>

\* start(), get_object raising DBusException: DeviceNetworkError
StartFails ==
    /\ SuperStartCalled
    /\ started = "no"
    /\ started' = "failed"
    /\ UNCHANGED <<cfg_vars, evtmgr, tasks, terminate, pc, now, sched_queue,
                   polling_start_time, retried, errors, dev_stats, stats, cur,
                   events, wake_at, stop_vars, channel, ghost_vars, dev_vars, ext_vars>>

\* run(), from its first line to the head of the scheduling loop: seeds the
\* queue, resets the termination flag and loads the saved stats
WorkerInit ==
    /\ pc = "spawned"
    /\ sched_queue' = SeedQueue(<<>>, tasks, 1)
    /\ terminate' = FALSE
    /\ dev_stats' = stats_file
    /\ errors' = EmptyDict
    /\ pc' = "loop"
    /\ UNCHANGED <<cfg_vars, started, evtmgr, tasks, now, polling_start_time,
                   retried, stats, cur, events, wake_at, stop_vars, channel,
                   ghost_vars, dev_vars, ext_vars>>

\* "while not self._terminate:" entered: a new tick starts
TickStart ==
    /\ pc = "loop"
    /\ ~terminate
    /\ polling_start_time' = now
    /\ retried' = {}
    /\ tick_polls' = [d \in Devs |-> 0]
    /\ tick_fails' = [d \in Devs |-> 0]
    /\ pc' = "drain"
    /\ UNCHANGED <<cfg_vars, started, evtmgr, tasks, terminate, now, sched_queue,
                   errors, dev_stats, stats, cur, events, wake_at, stop_vars,
                   channel, polls, last_outcome, transitions, dev_vars, ext_vars>>

\* "while not self._terminate:" left: the worker terminates
WorkerExit ==
    /\ pc = "loop"
    /\ terminate
    /\ pc' = "done"
    /\ UNCHANGED <<cfg_vars, started, evtmgr, tasks, terminate, now, sched_queue,
                   polling_start_time, retried, errors, dev_stats, stats, cur,
                   events, wake_at, stop_vars, channel, ghost_vars, dev_vars, ext_vars>>

CountNothing(st) == st

\* "stats.total_poll += 1"
CountPoll(st) == [st EXCEPT !.total_poll = @ + 1]

\* poll() invocations made so far
TotalPolls == polls["d1"] + polls["d2"]

\* the inner loop finds a due task: it is dequeued and dev.haldev.poll()
\* is called
PollNext ==
    /\ pc = "drain"
    /\ ~terminate
    /\ sched_queue[1].when <= polling_start_time
    /\ LET task == sched_queue[1].task
       IN  /\ TotalPolls < MaxPolls
           /\ sched_queue' = Tail(sched_queue)
           /\ cur' = Some(task)
           /\ stats' = CountPoll(Get(dev_stats, task.dev, NewStats))
           /\ polls' = [polls EXCEPT ![task.dev] = @ + 1]
           /\ tick_polls' = [tick_polls EXCEPT ![task.dev] = @ + 1]
    /\ pc' = "polling"
    /\ UNCHANGED <<cfg_vars, started, evtmgr, tasks, terminate, now,
                   polling_start_time, retried, errors, dev_stats, events,
                   wake_at, stop_vars, channel, last_outcome, transitions,
                   tick_fails, dev_vars, ext_vars>>

\* the inner loop ends (no due task, or termination requested): the worker
\* terminates if requested, sleeps until the next check otherwise
DrainEnd ==
    /\ pc = "drain"
    /\ terminate \/ ~(sched_queue[1].when <= polling_start_time)
    /\ LET elapsed == now - polling_start_time
           remaining_delay == DFLT_TASK_CHECKING_PERIOD - elapsed
       IN  IF terminate
           THEN pc' = "done" /\ wake_at' = wake_at
           ELSE IF remaining_delay > 0
                THEN pc' = "sleeping" /\ wake_at' = now + remaining_delay
                ELSE pc' = "loop" /\ wake_at' = wake_at
    /\ UNCHANGED <<cfg_vars, started, evtmgr, tasks, terminate, now, sched_queue,
                   polling_start_time, retried, errors, dev_stats, stats, cur,
                   events, stop_vars, channel, ghost_vars, dev_vars, ext_vars>>

SecondChanceNever(error, dev_id, retr) == FALSE

\* "if error: if dev_id not in retried:", error being errors.get(dev_id, None)
SecondChance(error, dev_id, retr) ==
    error # None /\ Val(error) # "" /\ dev_id \notin retr

\* lines 583-609 of run(): the stats are stored, the task is re-enqueued
\* (with a null period for the second chance of a first error) and the
\* worker pauses poll_req_interval seconds if configured
Reschedule(errs, st) ==
    LET task == Val(cur)
        dev_id == task.dev
        error == IF dev_id \in DOMAIN errs THEN Some(errs[dev_id]) ELSE None
        again == SecondChance(error, dev_id, retried)
        period == IF again THEN 0 ELSE task.period
        next_time == polling_start_time + period
    IN  /\ dev_stats' = Put(dev_stats, dev_id, st)
        /\ errors' = errs
        /\ retried' = IF again THEN retried \cup {dev_id} ELSE retried
        /\ sched_queue' = At(sched_queue, next_time, task)
        /\ stats' = NewStats
        /\ cur' = None
        /\ events' = 0
        /\ IF poll_req_interval # 0
           THEN pc' = "pausing" /\ wake_at' = now + poll_req_interval
           ELSE pc' = "drain" /\ wake_at' = wake_at

\* the except clauses of the poll: the counter bumped for the exception
CountError(st, kind) ==
    CASE kind = "CommunicationError" -> [st EXCEPT !.comm_errs = @ + 1]
      [] kind = "ValueError" -> [st EXCEPT !.crc_errs = @ + 1]
      [] kind = "TypeError" -> [st EXCEPT !.unexp_errs = @ + 1]

\* the message stored in errors[dev_id]
ErrorMessage(o) == IF o.kind = "ValueError" THEN "CRC error" ELSE o.msg

\* poll() raises CommunicationError, ValueError or TypeError
PollRaises(o) ==
    /\ pc = "polling"
    /\ o.kind \in {"CommunicationError", "ValueError", "TypeError"}
    /\ LET dev_id == Val(cur).dev
       IN  /\ Reschedule(Put(errors, dev_id, ErrorMessage(o)), CountError(stats, o.kind))
           /\ last_outcome' = [last_outcome EXCEPT ![dev_id] = "err"]
           /\ tick_fails' = [tick_fails EXCEPT ![dev_id] = @ + 1]
    /\ UNCHANGED <<cfg_vars, started, evtmgr, tasks, terminate, now,
                   polling_start_time, stop_vars, channel, polls, transitions,
                   tick_polls, dev_vars, ext_vars>>

\* poll() raises an exception of another class (PollingError is the one
\* PolledDevice.poll raises): no except clause handles it and run() ends
PollCrashes(o) ==
    /\ pc = "polling"
    /\ o.kind = "PollingError"
    /\ pc' = "crashed"
    /\ last_outcome' = [last_outcome EXCEPT ![Val(cur).dev] = "err"]
    /\ tick_fails' = [tick_fails EXCEPT ![Val(cur).dev] = @ + 1]
    /\ UNCHANGED <<cfg_vars, started, evtmgr, tasks, terminate, now, sched_queue,
                   polling_start_time, retried, errors, dev_stats, stats, cur,
                   events, wake_at, stop_vars, channel, polls, transitions,
                   tick_polls, dev_vars, ext_vars>>

RecoveredKeepError(errs, dev_id, st) ==
    IF dev_id \in DOMAIN errs
    THEN [errors |-> errs, stats |-> [st EXCEPT !.recovered = @ + 1]]
    ELSE [errors |-> errs, stats |-> st]

\* the else clause of the poll: "if dev_id in errors: del errors[dev_id];
\* stats.recovered += 1"
Recovered(errs, dev_id, st) ==
    IF dev_id \in DOMAIN errs
    THEN [errors |-> Del(errs, dev_id), stats |-> [st EXCEPT !.recovered = @ + 1]]
    ELSE [errors |-> errs, stats |-> st]

\* poll() returns a list of o.n events
PollReturns(o) ==
    /\ pc = "polling"
    /\ o.kind = "events"
    /\ LET dev_id == Val(cur).dev
           r == Recovered(errors, dev_id, stats)
       IN  /\ IF o.n = 0
              THEN Reschedule(r.errors, r.stats)
              ELSE /\ errors' = r.errors
                   /\ stats' = r.stats
                   /\ events' = o.n
                   /\ pc' = "emit_check"
                   /\ UNCHANGED <<sched_queue, retried, dev_stats, cur, wake_at>>
           /\ last_outcome' = [last_outcome EXCEPT ![dev_id] = "ok"]
           /\ transitions' = [transitions EXCEPT ![dev_id] =
                                 IF last_outcome[dev_id] = "err" THEN @ + 1 ELSE @]
    /\ UNCHANGED <<cfg_vars, started, evtmgr, tasks, terminate, now,
                   polling_start_time, stop_vars, channel, polls, tick_polls,
                   tick_fails, dev_vars, ext_vars>>

\* poll() returns None (PolledDevice.poll of a device tagged invalid):
\* "for evt in events" raises TypeError outside of the guarded call
PollReturnsNone(o) ==
    /\ pc = "polling"
    /\ o.kind = "none"
    /\ LET dev_id == Val(cur).dev
           r == Recovered(errors, dev_id, stats)
       IN  /\ errors' = r.errors
           /\ stats' = r.stats
           /\ last_outcome' = [last_outcome EXCEPT ![dev_id] = "ok"]
           /\ transitions' = [transitions EXCEPT ![dev_id] =
                                 IF last_outcome[dev_id] = "err" THEN @ + 1 ELSE @]
    /\ pc' = "crashed"
    /\ UNCHANGED <<cfg_vars, started, evtmgr, tasks, terminate, now, sched_queue,
                   polling_start_time, retried, dev_stats, cur, events, wake_at,
                   stop_vars, channel, polls, tick_polls, tick_fails, dev_vars, ext_vars>>

\* "for evt in events: if self._terminate: break"
EmitCheck ==
    /\ pc = "emit_check"
    /\ IF terminate
       THEN Reschedule(errors, stats)
       ELSE /\ pc' = "emit_call"
            /\ UNCHANGED <<sched_queue, retried, errors, dev_stats, stats, cur,
                           events, wake_at>>
    /\ UNCHANGED <<cfg_vars, started, evtmgr, tasks, terminate, now,
                   polling_start_time, stop_vars, channel, ghost_vars, dev_vars, ext_vars>>

\* emit_event: "self._evtmgr.emitEvent(*args)" reads the handle and sends
\* the request to the event manager; AttributeError when the handle is None
EmitCall ==
    /\ pc = "emit_call"
    /\ pc' = IF evtmgr THEN "emit_wait" ELSE "crashed"
    /\ UNCHANGED <<cfg_vars, started, evtmgr, tasks, terminate, now, sched_queue,
                   polling_start_time, retried, errors, dev_stats, stats, cur,
                   events, wake_at, stop_vars, channel, ghost_vars, dev_vars, ext_vars>>

\* the event manager emits the event on the sensor channel and replies
EmitDone ==
    /\ pc = "emit_wait"
    /\ channel' = [channel EXCEPT ![Val(cur).dev] = @ + 1]
    /\ IF events = 1
       THEN Reschedule(errors, stats)
       ELSE /\ events' = events - 1
            /\ pc' = "emit_check"
            /\ UNCHANGED <<sched_queue, retried, errors, dev_stats, stats, cur,
                           wake_at>>
    /\ UNCHANGED <<cfg_vars, started, evtmgr, tasks, terminate, now,
                   polling_start_time, stop_vars, ghost_vars, dev_vars, ext_vars>>

\* the DBusException of emitEvent left uncaught
EmitFailsUncaught ==
    /\ pc = "emit_wait"
    /\ pc' = "crashed"
    /\ last_outcome' = [last_outcome EXCEPT ![Val(cur).dev] = "bus_error"]
    /\ UNCHANGED <<cfg_vars, started, evtmgr, tasks, terminate, now, sched_queue,
                   polling_start_time, retried, errors, dev_stats, stats, cur,
                   events, wake_at, stop_vars, channel, polls, transitions,
                   tick_polls, tick_fails, dev_vars, ext_vars>>

\* emitEvent raises DBusException: caught around the whole for loop, the
\* remaining events of the poll are dropped
EmitFails ==
    /\ pc = "emit_wait"
    /\ Reschedule(errors, stats)
    /\ last_outcome' = [last_outcome EXCEPT ![Val(cur).dev] = "bus_error"]
    /\ UNCHANGED <<cfg_vars, started, evtmgr, tasks, terminate, now,
                   polling_start_time, stop_vars, channel, polls, transitions,
                   tick_polls, tick_fails, dev_vars, ext_vars>>

\* a time.sleep() of the worker ends
Wake ==
    /\ pc \in {"sleeping", "pausing"}
    /\ now >= wake_at
    /\ pc' = IF pc = "sleeping" THEN "loop" ELSE "drain"
    /\ UNCHANGED <<cfg_vars, started, evtmgr, tasks, terminate, now, sched_queue,
                   polling_start_time, retried, errors, dev_stats, stats, cur,
                   events, wake_at, stop_vars, channel, ghost_vars, dev_vars, ext_vars>>

\* one second passes
Tick ==
    /\ now - StartTime < MaxElapsed
    /\ now' = now + 1
    /\ UNCHANGED <<cfg_vars, started, evtmgr, tasks, terminate, pc, sched_queue,
                   polling_start_time, retried, errors, dev_stats, stats, cur,
                   events, wake_at, stop_vars, channel, ghost_vars, dev_vars, ext_vars>>

\* stop() up to the join: "self._polling_thread.terminate()", then the
\* termination signal to the pollable devices
StopCall ==
    /\ SuperStopCalled
    /\ started = "yes"
    /\ stop_pc = "idle"
    /\ terminate' = TRUE
    /\ join_deadline' = now + 2 * DFLT_TASK_CHECKING_PERIOD
    /\ stop_pc' = "joining"
    /\ UNCHANGED <<cfg_vars, started, evtmgr, tasks, pc, now, sched_queue,
                   polling_start_time, retried, errors, dev_stats, stats, cur,
                   events, wake_at, channel, ghost_vars, dev_vars, ext_vars>>

\* stop() when start() failed: no polling thread, nothing is done
StopNoThread ==
    /\ SuperStopCalled
    /\ started = "failed"
    /\ stop_pc = "idle"
    /\ stop_pc' = "returned"
    /\ UNCHANGED <<cfg_vars, started, evtmgr, tasks, terminate, pc, now,
                   sched_queue, polling_start_time, retried, errors, dev_stats,
                   stats, cur, events, wake_at, join_deadline, channel,
                   ghost_vars, dev_vars, ext_vars>>

\* "self._polling_thread.join(self._polling_thread.period * 2)" returns,
\* the thread having ended or the timeout having expired; then
\* "self._evtmgr = None" and stop() returns
StopReturn ==
    /\ stop_pc = "joining"
    /\ pc \in {"done", "crashed"} \/ now >= join_deadline
    /\ evtmgr' = FALSE
    /\ stop_pc' = "returned"
    /\ UNCHANGED <<cfg_vars, started, tasks, terminate, pc, now, sched_queue,
                   polling_start_time, retried, errors, dev_stats, stats, cur,
                   events, wake_at, join_deadline, channel, ghost_vars, dev_vars, ext_vars>>

PollEnds ==
    \E o \in Outcomes :
        \/ PollRaises(o)
        \/ PollCrashes(o)
        \/ PollReturns(o)
        \/ PollReturnsNone(o)

Init ==
    /\ InitDevWith(CHOOSE s \in DeviceSettings : TRUE)
    /\ \E c \in CoordSettings, f \in StatsFiles :
           /\ (f = EmptyDict) = (c.poll_req_interval = None /\ c.polling["d1"] = None)
           /\ InitCoordWith(c, f)
    /\ SerialAtRest /\ SendAtRest /\ EmitAtRest /\ ConfAtRest /\ LibAtRest

Next ==
    \/ StartOk
    \/ StartFails
    \/ WorkerInit
    \/ TickStart
    \/ WorkerExit
    \/ PollNext
    \/ DrainEnd
    \/ PollEnds
    \/ EmitCheck
    \/ EmitCall
    \/ EmitDone
    \/ EmitFails
    \/ Wake
    \/ Tick
    \/ StopCall
    \/ StopNoThread
    \/ StopReturn

Spec == Init /\ [][Next]_vars

InitDev ==
    /\ \E s \in DeviceSettings : InitDevWith(s)
    /\ InitCoordWith(CHOOSE c \in CoordSettings : TRUE, EmptyDict)
    /\ SerialAtRest /\ SendAtRest /\ EmitAtRest /\ ConfAtRest /\ LibAtRest

DevPoll ==
    /\ \E values \in [Outputs -> Readings] : DevCreateEvents(values)
    /\ UNCHANGED <<coord_vars, ext_vars>>

DevAdvance ==
    /\ \E d \in TimeSteps : DevTick(d)
    /\ UNCHANGED <<coord_vars, ext_vars>>

NextDev == DevPoll \/ DevAdvance

SpecDev == InitDev /\ [][NextDev]_vars

(***************************************************************************)
(* Part 3 - event manager channel (evtmgr.py)                              *)
(***************************************************************************)

MaxEmits == 3           \* emitEvent/emitFullEvent calls explored
MaxEmitClock == 2       \* milliseconds of event manager clock explored

\* the timestamps given by the callers of emitFullEvent
FullStamps == {0, 5}

LockIgnored(lock) == TRUE

\* threading.Lock: acquire() returns when the lock is free
LockFree(lock) == lock = None

\* the rest of the program does not move
EmitFrame == UNCHANGED <<dev_vars, coord_vars, serial_vars, send_vars, conf_vars, lib_vars>>

\* a thread calls emitEvent (stamp = None: the event is to be timestamped)
\* or emitFullEvent (stamp = the timestamp given)
EmitBegin(c, stamp) ==
    /\ emit_pc[c] = "idle"
    /\ emit_calls < MaxEmits
    /\ emit_calls' = emit_calls + 1
    /\ emit_stamp' = [emit_stamp EXCEPT ![c] = stamp]
    /\ emit_pc' = [emit_pc EXCEPT ![c] = "waiting"]
    /\ UNCHANGED <<emit_lock, emit_clock, bus>>
    /\ EmitFrame

\* "with self._emitLock:" entered
EmitAcquire(c) ==
    /\ emit_pc[c] = "waiting"
    /\ LockFree(emit_lock)
    /\ emit_lock' = Some(c)
    /\ emit_pc' = [emit_pc EXCEPT ![c] =
                      IF emit_stamp[c] = None THEN "stamping" ELSE "signalling"]
    /\ UNCHANGED <<emit_stamp, emit_calls, emit_clock, bus>>
    /\ EmitFrame

\* emitEvent: "timestamp = int(time.time() * 1000)"
EmitStamp(c) ==
    /\ emit_pc[c] = "stamping"
    /\ emit_stamp' = [emit_stamp EXCEPT ![c] = Some(emit_clock)]
    /\ bus' = Append(bus, [who |-> c, step |-> "stamp", timestamp |-> emit_clock])
    /\ emit_pc' = [emit_pc EXCEPT ![c] = "signalling"]
    /\ UNCHANGED <<emit_lock, emit_calls, emit_clock>>
    /\ EmitFrame

\* "self.onCSTBoxEvent(timestamp, var_type, var_name, data)"
EmitSignal(c) ==
    /\ emit_pc[c] = "signalling"
    /\ bus' = Append(bus, [who |-> c, step |-> "signal",
                           timestamp |-> Val(emit_stamp[c])])
    /\ emit_pc' = [emit_pc EXCEPT ![c] = "releasing"]
    /\ UNCHANGED <<emit_lock, emit_stamp, emit_calls, emit_clock>>
    /\ EmitFrame

\* the with statement is left and the method returns True
EmitRelease(c) ==
    /\ emit_pc[c] = "releasing"
    /\ emit_lock' = IF emit_lock = Some(c) THEN None ELSE emit_lock
    /\ emit_stamp' = [emit_stamp EXCEPT ![c] = None]
    /\ emit_pc' = [emit_pc EXCEPT ![c] = "idle"]
    /\ UNCHANGED <<emit_calls, emit_clock, bus>>
    /\ EmitFrame

\* the clock of the event manager advances
EmitClockTick ==
    /\ emit_clock < MaxEmitClock
    /\ emit_clock' = emit_clock + 1
    /\ UNCHANGED <<emit_lock, emit_pc, emit_stamp, emit_calls, bus>>
    /\ EmitFrame

EmitSteps ==
    \E c \in Emitters :
        \/ \E stamp \in {None} \cup {Some(t) : t \in FullStamps} : EmitBegin(c, stamp)
        \/ EmitAcquire(c)
        \/ EmitStamp(c)
        \/ EmitSignal(c)
        \/ EmitRelease(c)

InitEmit ==
    /\ InitDevWith(CHOOSE s \in DeviceSettings : TRUE)
    /\ InitCoordWith(CHOOSE c \in CoordSettings : TRUE, EmptyDict)
    /\ SerialAtRest /\ SendAtRest /\ EmitAtRest /\ ConfAtRest /\ LibAtRest

NextEmit == EmitSteps \/ EmitClockTick

SpecEmit == InitEmit /\ [][NextEmit]_vars

(***************************************************************************)
(* Part 4 - serial coordinator (hal/c_serial.py)                           *)
(***************************************************************************)

\* the coordinator and the other objects do not move
SerialFrame == UNCHANGED <<dev_vars, coord_vars, send_vars, emit_vars, conf_vars, lib_vars>>

\* start(): the port is not set, "super().start()" is called
SerialStart ==
    /\ ser_pc = "idle"
    /\ serial_port = "none"
    /\ ser_pc' = "start_super"
    /\ UNCHANGED <<serial_port, rx_thread>>
    /\ SerialFrame

\* start(): super().start() raised DeviceNetworkError, which propagates
SerialStartAborted ==
    /\ ser_pc = "start_super"
    /\ started = "failed"
    /\ ser_pc' = "start_failed"
    /\ UNCHANGED <<serial_port, rx_thread>>
    /\ SerialFrame

\* start(): super().start() has returned (the polling thread is spawned);
\* serial.Serial(...) opens the port and the receive thread is started
SerialOpenOk ==
    /\ ser_pc = "start_super"
    /\ started = "yes"
    /\ serial_port' = "open"
    /\ rx_thread' = "running"
    /\ ser_pc' = "started"
    /\ SerialFrame

\* start(): serial.Serial(...) raises SerialException, which propagates
SerialOpenFails ==
    /\ ser_pc = "start_super"
    /\ started = "yes"
    /\ ser_pc' = "start_failed"
    /\ UNCHANGED <<serial_port, rx_thread>>
    /\ SerialFrame

\* stop() with no port: 'not started', nothing is done
SerialStopNotStarted ==
    /\ ser_pc = "start_failed"
    /\ serial_port = "none"
    /\ ser_pc' = "stop_refused"
    /\ UNCHANGED <<serial_port, rx_thread>>
    /\ SerialFrame

\* stop(): the receive thread is told to terminate and joined
SerialStopRx ==
    /\ ser_pc = "started"
    /\ serial_port = "open"
    /\ rx_thread' = "none"
    /\ ser_pc' = "stop_close"
    /\ UNCHANGED serial_port
    /\ SerialFrame

\* stop(): the port is closed and forgotten, then "super().stop()" is called
SerialClose ==
    /\ ser_pc = "stop_close"
    /\ serial_port' = "none"
    /\ ser_pc' = "stop_super"
    /\ UNCHANGED rx_thread
    /\ SerialFrame

\* a serial coordinator with two polled devices, not started yet
InitSerial ==
    /\ InitDevWith(CHOOSE s \in DeviceSettings : TRUE)
    /\ \E c \in CoordSettings :
           /\ c.poll_req_interval = None /\ c.polling["d1"] = None
           /\ InitCoordWith(c, EmptyDict)
    /\ ser_pc = "idle" /\ serial_port = "none" /\ rx_thread = "none"
    /\ SendAtRest /\ EmitAtRest /\ ConfAtRest /\ LibAtRest

NextSerial ==
    \/ SerialStart
    \/ StartOk
    \/ StartFails
    \/ SerialStartAborted
    \/ SerialOpenOk
    \/ SerialOpenFails
    \/ WorkerInit
    \/ TickStart
    \/ WorkerExit
    \/ PollNext
    \/ DrainEnd
    \/ PollEnds
    \/ EmitCheck
    \/ EmitCall
    \/ EmitDone
    \/ EmitFails
    \/ Wake
    \/ Tick
    \/ SerialStopNotStarted
    \/ SerialStopRx
    \/ SerialClose
    \/ StopCall
    \/ StopReturn

SpecSerial == InitSerial /\ [][NextSerial]_vars

(***************************************************************************)
(* send_command of the serial coordinator (hal/c_serial.py)                *)
(***************************************************************************)

MaxSends == 3           \* send_command calls explored

SendFrame == UNCHANGED <<dev_vars, coord_vars, serial_vars, emit_vars, conf_vars, lib_vars>>

\* a thread calls send_command(command, callback); cb tells if a callback
\* is given
SendBegin(c, cb) ==
    /\ snd_pc[c] = "idle"
    /\ snd_calls < MaxSends
    /\ snd_calls' = snd_calls + 1
    /\ snd_cb' = [snd_cb EXCEPT ![c] = cb]
    /\ snd_pc' = [snd_pc EXCEPT ![c] = "waiting"]
    /\ UNCHANGED <<serial_lock, wire>>
    /\ SendFrame

\* "self._serial_lock.acquire()"
SendAcquire(c) ==
    /\ snd_pc[c] = "waiting"
    /\ LockFree(serial_lock)
    /\ serial_lock' = Some(c)
    /\ snd_pc' = [snd_pc EXCEPT ![c] = "writing"]
    /\ UNCHANGED <<snd_cb, snd_calls, wire>>
    /\ SendFrame

\* "self._serial_port.write(command)" returns
SendWrite(c) ==
    /\ snd_pc[c] = "writing"
    /\ serial_port = "open"
    /\ wire' = Append(wire, [who |-> c, step |-> "write"])
    /\ snd_pc' = [snd_pc EXCEPT ![c] = IF snd_cb[c] THEN "callback" ELSE "leaving"]
    /\ UNCHANGED <<serial_lock, snd_cb, snd_calls>>
    /\ SendFrame

\* "self._serial_port.write(command)" raises: AttributeError when the port
\* is None, SerialException when the transmission fails
SendWriteRaises(c) ==
    /\ snd_pc[c] = "writing"
    /\ wire' = Append(wire, [who |-> c, step |-> "write_error"])
    /\ snd_pc' = [snd_pc EXCEPT ![c] = "raising"]
    /\ UNCHANGED <<serial_lock, snd_cb, snd_calls>>
    /\ SendFrame

\* "if callback: self.callback(command)": the object has no attribute
\* named callback, the lookup raises AttributeError
SendCallback(c) ==
    /\ snd_pc[c] = "callback"
    /\ wire' = Append(wire, [who |-> c, step |-> "callback_error"])
    /\ snd_pc' = [snd_pc EXCEPT ![c] = "raising"]
    /\ UNCHANGED <<serial_lock, snd_cb, snd_calls>>
    /\ SendFrame

\* "finally: self._serial_lock.release()", then the call returns or the
\* exception propagates to the caller
SendRelease(c) ==
    /\ snd_pc[c] \in {"leaving", "raising"}
    /\ serial_lock' = None
    /\ snd_cb' = [snd_cb EXCEPT ![c] = FALSE]
    /\ snd_pc' = [snd_pc EXCEPT ![c] = "idle"]
    /\ UNCHANGED <<snd_calls, wire>>
    /\ SendFrame

SendSteps ==
    \E c \in Senders :
        \/ \E cb \in BOOLEAN : SendBegin(c, cb)
        \/ SendAcquire(c)
        \/ SendWrite(c)
        \/ SendWriteRaises(c)
        \/ SendCallback(c)
        \/ SendRelease(c)

\* a serial coordinator, started (port open) or not (no port)
InitSend ==
    /\ InitDevWith(CHOOSE s \in DeviceSettings : TRUE)
    /\ InitCoordWith(CHOOSE c \in CoordSettings : TRUE, EmptyDict)
    /\ \/ ser_pc = "started" /\ serial_port = "open" /\ rx_thread = "running"
       \/ ser_pc = "idle" /\ serial_port = "none" /\ rx_thread = "none"
    /\ SendAtRest /\ EmitAtRest /\ ConfAtRest /\ LibAtRest

NextSend == SendSteps

SpecSend == InitSend /\ [][NextSend]_vars

(***************************************************************************)
(* Part 5 - device network configuration (devcfg.py)                       *)
(*                                                                         *)
(* A configuration object (Coordinator, Device) is the dict of its         *)
(* instance attributes; JSON data are dicts too.  A device unique id       *)
(* "c/d" is given by its two components.                                   *)
(***************************************************************************)

MaxCfgOps == 3          \* configuration operations explored

CoordIds == {"c1", "c2"}
DevIds == {"d1", "d2"}

\* a dict restricted to some keys, and dict.update
Restrict(d, keys) == [k \in DOMAIN d \cap keys |-> d[k]]
Merge(a, b) == [k \in DOMAIN a \cup DOMAIN b |-> IF k \in DOMAIN b THEN b[k] ELSE a[k]]

\* the iteration orders of a dict with key set S
Orders(S) ==
    {q \in [1..Cardinality(S) -> S] : \A i, j \in DOMAIN q : i # j => q[i] # q[j]}

\* the metadata registry (devcfg.d): one device type, whose property
\* definitions give a root property with a default value and an output
MetadataDevices ==
    [t \in {"x:t1"} |-> [root |-> [enabled |-> Some(TRUE)], outputs |-> {"o1"}]]

\* the attributes Device.__init__ takes from the metadata of a device type
MetadataAttrs(fqdt) ==
    LET pdefs == MetadataDevices[fqdt]
    IN  Merge([k \in DOMAIN pdefs.root |->
                  IF pdefs.root[k] = None THEN "" ELSE Val(pdefs.root[k])],
              [e \in {"outputs"} |-> [o \in pdefs.outputs |-> EmptyDict]])

\* Device(uid, **kwargs)
NewDevice(uid, kwargs) ==
    IF uid = ""
    THEN [err |-> "ValueError", obj |-> EmptyDict]
    ELSE IF "type" \in DOMAIN kwargs /\ kwargs["type"] \notin DOMAIN MetadataDevices
    THEN [err |-> "DeviceTypeNotFound", obj |-> EmptyDict]
    ELSE LET own == [k \in {"uid"} |-> uid]
             preset == IF "type" \in DOMAIN kwargs
                       THEN Merge(own, MetadataAttrs(kwargs["type"]))
                       ELSE own
         IN  [err |-> "ok", obj |-> Merge(preset, kwargs)]

\* Coordinator(uid, **kwargs): its attributes and its devices
NewCoordinator(uid, kwargs) ==
    [attrs |-> Merge([k \in {"uid"} |-> uid], kwargs), devices |-> EmptyDict]

\* the attributes defined at the class level of Device
DeviceClassAttrs == {"address", "type", "location", "enabled"}

\* DevCfgObject.check on a device: the required attributes hasattr() misses
DeviceMissing(d) ==
    {a \in {"uid", "address", "type", "location"} :
        a \notin DOMAIN d /\ a \notin DeviceClassAttrs}

\* DevCfgObject.check on a coordinator
CoordinatorMissing(c) == {a \in {"uid", "type"} : a \notin DOMAIN c.attrs}

CoordAddDeviceOverwrite(c, d) ==
    IF DeviceMissing(d) # {}
    THEN [err |-> "MissingAttribute", obj |-> c]
    ELSE [err |-> "ok", obj |-> [c EXCEPT !.devices = Put(@, d["uid"], d)]]

\* Coordinator.add_device(d)
CoordAddDevice(c, d) ==
    IF DeviceMissing(d) # {}
    THEN [err |-> "MissingAttribute", obj |-> c]
    ELSE IF d["uid"] \in DOMAIN c.devices
    THEN [err |-> "DuplicatedDevice", obj |-> c]
    ELSE [err |-> "ok", obj |-> [c EXCEPT !.devices = Put(@, d["uid"], d)]]

\* load_dict, body of the loop on the coordinators: the coordinator and
\* its devices are built from the data, in the order given for the devices
RECURSIVE LoadDevices(_, _, _)
LoadDevices(coord, devices, order) ==
    IF order = <<>>
    THEN [err |-> "ok", obj |-> coord]
    ELSE LET did == Head(order)
             d == NewDevice(did, devices[did])
         IN  IF d.err # "ok"
             THEN [err |-> d.err, obj |-> coord]
             ELSE LET r == CoordAddDevice(coord, d.obj)
                  IN  IF r.err # "ok"
                      THEN r
                      ELSE LoadDevices(r.obj, devices, Tail(order))

BuildCoordinator(cid, cdata) ==
    \* the outcome does not depend on the iteration order of the devices: a
    \* coordinator one device of which is refused is dropped whole
    LET coord == NewCoordinator(cid, Restrict(cdata, DOMAIN cdata \ {"devices"}))
        order == CHOOSE q \in Orders(DOMAIN cdata["devices"]) : TRUE
    IN  LoadDevices(coord, cdata["devices"], order)

\* DeviceNetworkConfiguration.add_coordinator(c) on the dict cfg
AddCoordinator(cfg, c) ==
    IF CoordinatorMissing(c) # {}
    THEN [err |-> "MissingAttribute", cfg |-> cfg]
    ELSE IF c.attrs["uid"] \in DOMAIN cfg
    THEN [err |-> "DuplicatedCoordinator", cfg |-> cfg]
    ELSE [err |-> "ok", cfg |-> Put(cfg, c.attrs["uid"], c)]

\* load_dict, the loop on the coordinators in the iteration order given,
\* cfg being the content of the configuration so far
RECURSIVE LoadCoordinators(_, _, _)
LoadCoordinators(tree, order, cfg) ==
    IF order = <<>>
    THEN [err |-> "ok", cfg |-> cfg]
    ELSE LET cid == Head(order)
             c == BuildCoordinator(cid, tree[cid])
         IN  IF c.err # "ok"
             THEN [err |-> c.err, cfg |-> cfg]
             ELSE LET r == AddCoordinator(cfg, c.obj)
                  IN  IF r.err # "ok"
                      THEN r
                      ELSE LoadCoordinators(tree, Tail(order), r.cfg)

\* load / load_str: the data must be a dict, then load_dict, which clears
\* the configuration first
LoadData(data, order, cfg) ==
    IF data.top # "dict"
    THEN [err |-> "ValueError", cfg |-> cfg]
    ELSE LoadCoordinators(data.coordinators, order, EmptyDict)

\* DevCfgObject.js_dict: the attributes but the transient ones
DeviceJsDict(d) == Restrict(d, DOMAIN d \ {"uid"})

\* Coordinator.js_dict
CoordinatorJsDict(c) ==
    Merge(Restrict(c.attrs, DOMAIN c.attrs \ {"uid", "devices"}),
          [k \in {"devices"} |-> [id \in DOMAIN c.devices |-> DeviceJsDict(c.devices[id])]])

\* as_json followed by the JSON parsing of the result
AsJson(cfg) ==
    [top |-> "dict", coordinators |-> [cid \in DOMAIN cfg |-> CoordinatorJsDict(cfg[cid])]]

\* ---- the data of the model
FullDevice == [type |-> "x:t1", address |-> "a1", location |-> "l1"]

DeviceDatas ==
    {Restrict(FullDevice, DOMAIN FullDevice \ drop) : drop \in {{}, {"type"}, {"address"}, {"location"}}}
    \cup {[FullDevice EXCEPT !["type"] = "x:zz"]}

CoordData(typed, devices) ==
    IF typed THEN [type |-> "x", devices |-> devices] ELSE [devices |-> devices]

OneDevice(ddata) == [k \in {"d1"} |-> ddata]

\* the configuration files: not a dict, one coordinator with one device of
\* each kind, a coordinator without type, and two coordinators the second
\* of which is right, has a device of unknown type or has no type
Sources ==
    {[top |-> "list", coordinators |-> EmptyDict]}
    \cup {[top |-> "dict",
           coordinators |-> [c \in {"c1"} |-> CoordData(TRUE, OneDevice(dd))]] :
          dd \in DeviceDatas}
    \cup {[top |-> "dict",
           coordinators |-> [c \in {"c1"} |-> CoordData(FALSE, OneDevice(FullDevice))]]}
    \cup {[top |-> "dict",
           coordinators |-> [c \in CoordIds |->
               IF c = "c1" THEN CoordData(TRUE, [k \in DevIds |-> FullDevice]) ELSE x]] :
          x \in {CoordData(TRUE, OneDevice(FullDevice)),
                 CoordData(TRUE, OneDevice([FullDevice EXCEPT !["type"] = "x:zz"])),
                 CoordData(FALSE, OneDevice(FullDevice))}}

\* the devices and coordinators given to add_device and add_coordinator
DeviceObjs ==
    {NewDevice("d1", FullDevice).obj, NewDevice("d2", FullDevice).obj,
     NewDevice("d2", Restrict(FullDevice, {"type", "location"})).obj}

CoordinatorObjs ==
    {NewCoordinator("c1", [type |-> "x"]), NewCoordinator("c2", [type |-> "x"]),
     NewCoordinator("c2", EmptyDict)}

\* ---- the operations
NetCfgFrame ==
    UNCHANGED <<dev_vars, coord_vars, serial_vars, send_vars, emit_vars,
                broker_vars, svc_vars, lib_vars>>

CfgDone(op, cid, did, newid, err) ==
    /\ cfg_ops < MaxCfgOps
    /\ cfg_ops' = cfg_ops + 1
    /\ cfg_last' = [op |-> op, cid |-> cid, did |-> did, newid |-> newid, err |-> err]
    /\ NetCfgFrame

\* load(): the file is read and parsed, the data are loaded
CfgLoad ==
    \E order \in Orders(DOMAIN cfg_file.coordinators) :
        LET r == LoadData(cfg_file, order, netcfg)
        IN  /\ netcfg' = r.cfg
            /\ CfgDone("load", "", "", "", r.err)
            /\ UNCHANGED cfg_file

\* store(): as_json is written to the file
CfgStore ==
    /\ cfg_file' = AsJson(netcfg)
    /\ CfgDone("store", "", "", "", "ok")
    /\ UNCHANGED netcfg

CfgAddCoordinator(c) ==
    LET r == AddCoordinator(netcfg, c)
    IN  /\ netcfg' = r.cfg
        /\ CfgDone("add_coordinator", c.attrs["uid"], "", "", r.err)
        /\ UNCHANGED cfg_file

\* del_coordinator(c_id): "del self[c_id]"
CfgDelCoordinator(cid) ==
    /\ netcfg' = IF cid \in DOMAIN netcfg THEN Del(netcfg, cid) ELSE netcfg
    /\ CfgDone("del_coordinator", cid, "", "",
               IF cid \in DOMAIN netcfg THEN "ok" ELSE "KeyError")
    /\ UNCHANGED cfg_file

\* add_device(c, d), c being a coordinator id
CfgAddDevice(cid, d) ==
    LET err == IF DeviceMissing(d) # {} THEN "MissingAttribute"
               ELSE IF cid \notin DOMAIN netcfg THEN "KeyError"
               ELSE CoordAddDevice(netcfg[cid], d).err
    IN  /\ netcfg' = IF err = "ok"
                     THEN [netcfg EXCEPT ![cid] = CoordAddDevice(netcfg[cid], d).obj]
                     ELSE netcfg
        /\ CfgDone("add_device", cid, d["uid"], "", err)
        /\ UNCHANGED cfg_file

\* del_device(c, d), c being a coordinator id and d a device id
CfgDelDevice(cid, did) ==
    LET found == cid \in DOMAIN netcfg /\ did \in DOMAIN netcfg[cid].devices
    IN  /\ netcfg' = IF found
                     THEN [netcfg EXCEPT ![cid].devices = Del(@, did)]
                     ELSE netcfg
        /\ CfgDone("del_device", cid, did, "", IF found THEN "ok" ELSE "KeyError")
        /\ UNCHANGED cfg_file

\* rename_device(uid, newid), uid being cid/did: the device is moved to
\* the key newid
CfgRenameDevice(cid, did, newid) ==
    LET err == IF cid \notin DOMAIN netcfg THEN "KeyError"
               ELSE IF newid \in DOMAIN netcfg[cid].devices THEN "DuplicatedDevice"
               ELSE IF did \notin DOMAIN netcfg[cid].devices THEN "KeyError"
               ELSE "ok"
    IN  /\ netcfg' = IF err = "ok"
                     THEN [netcfg EXCEPT ![cid].devices =
                              Put(Del(@, did), newid, netcfg[cid].devices[did])]
                     ELSE netcfg
        /\ CfgDone("rename_device", cid, did, newid, err)
        /\ UNCHANGED cfg_file

CfgMutates ==
    \/ \E c \in CoordinatorObjs : CfgAddCoordinator(c)
    \/ \E cid \in CoordIds : CfgDelCoordinator(cid)
    \/ \E cid \in CoordIds, d \in DeviceObjs : CfgAddDevice(cid, d)
    \/ \E cid \in CoordIds, did \in DevIds : CfgDelDevice(cid, did)
    \/ \E cid \in CoordIds, did \in DevIds, newid \in DevIds :
           CfgRenameDevice(cid, did, newid)

\* an empty configuration object and a configuration file
InitCfg ==
    /\ InitDevWith(CHOOSE s \in DeviceSettings : TRUE)
    /\ InitCoordWith(CHOOSE c \in CoordSettings : TRUE, EmptyDict)
    /\ SerialAtRest /\ SendAtRest /\ EmitAtRest
    /\ netcfg = EmptyDict
    /\ cfg_file \in Sources
    /\ cfg_last = [op |-> "none", cid |-> "", did |-> "", newid |-> "", err |-> "none"]
    /\ cfg_ops = 0
    /\ BrokerAtRest /\ SvcAtRest /\ LibAtRest

NextCfg == CfgLoad \/ CfgStore \/ CfgMutates

SpecCfg == InitCfg /\ [][NextCfg]_vars

(***************************************************************************)
(* Part 6 - loading of the device network service (hal/network.py)         *)
(*                                                                         *)
(* A device type "proto:devtype" is given by the list of its parts.        *)
(***************************************************************************)

\* the coordinator types handled by the service (keys of _coord_types)
CoordTypes == {"x"}

\* get_hal_device_classes(): for each device type with a driver class,
\* what its constructor does and what the _hwdev of the instance is
HalDeviceClasses ==
    [t \in {"ok", "halerr", "crash", "nohw", "async"} |->
        [ctor |-> CASE t = "halerr" -> "HalError"
                    [] t = "crash" -> "Exception"
                    [] OTHER -> "ok",
         hwdev |-> CASE t = "nohw" -> "None"
                     [] t = "async" -> "absent"
                     [] OTHER -> "object"]]

\* _configure_devices, body of the loop for one enabled device: the device
\* is registered, ignored (construction failure, counted), has no driver,
\* or an exception leaves the method
ConfigureDevice(dcfg) ==
    IF dcfg.type = None
    THEN "AttributeError"       \* cfg_dev.type.split on None
    ELSE IF Len(Val(dcfg.type)) # 2
    THEN "ValueError"           \* "_protocol, devtype = ..."
    ELSE LET devtype == Val(dcfg.type)[2]
         IN  IF devtype \notin DOMAIN HalDeviceClasses
             THEN "nodriver"
             ELSE IF HalDeviceClasses[devtype].ctor # "ok"
             THEN "ignored"
             ELSE IF HalDeviceClasses[devtype].hwdev # "object"
             THEN "AttributeError"  \* haldev._hwdev, hw_dev.poll_req_interval = ...
             ELSE "registered"

\* _configure_devices(cfg): the devices registered and the error count,
\* or the exception that leaves the method
ConfigureDevices(ccfg) ==
    LET enabled == {did \in DOMAIN ccfg.devices : ccfg.devices[did].enabled}
        outcome == [did \in enabled |-> ConfigureDevice(ccfg.devices[did])]
        raising == {did \in enabled : outcome[did] \in {"AttributeError", "ValueError"}}
    IN  [err |-> IF raising = {} THEN "ok" ELSE outcome[CHOOSE did \in raising : TRUE],
         devices |-> {did \in enabled : outcome[did] = "registered"},
         error_count |-> Cardinality({did \in enabled : outcome[did] = "ignored"})]

\* CoordinatorServiceObject.load_configuration(cfg); a coordinator with no
\* device is an empty dict
CoordinatorLoad(ccfg) ==
    IF DOMAIN ccfg.devices = {}
    THEN [err |-> "ValueError", devices |-> {}, error_count |-> 0]
    ELSE IF ccfg.configure # "ok"
    THEN [err |-> ccfg.configure, devices |-> {}, error_count |-> 0]
    ELSE ConfigureDevices(ccfg)

\* DeviceNetworkSvc.load_configuration, the loop on the coordinators of a
\* handled type in the iteration order given
RECURSIVE SvcLoadLoop(_, _, _)
SvcLoadLoop(cfg, order, objs) ==
    IF order = <<>>
    THEN [err |-> "ok", objs |-> objs]
    ELSE LET cid == Head(order)
             r == CoordinatorLoad(cfg[cid])
         IN  IF r.err = "HalError"
             THEN SvcLoadLoop(cfg, Tail(order), objs)
             ELSE IF r.err # "ok"
             THEN [err |-> r.err, objs |-> objs]
             ELSE SvcLoadLoop(cfg, Tail(order),
                              Put(objs, cid, [devices |-> r.devices,
                                              error_count |-> r.error_count]))

\* ---- the data of the model
SvcDevice(enabled, devtype) == [enabled |-> enabled, type |-> Some(<<"x", devtype>>)]

SvcDeviceKinds ==
    {SvcDevice(TRUE, t) : t \in DOMAIN HalDeviceClasses \cup {"zz"}}
    \cup {SvcDevice(FALSE, "ok"), [enabled |-> TRUE, type |-> None]}

SvcCoordinator(type, configure, devices) ==
    [type |-> type, configure |-> configure, devices |-> devices]

\* the first coordinator: a device of each kind alone or with a second
\* device, no device at all, or a class whose _configure_coordinator raises
SvcFirstCoordinators ==
    {SvcCoordinator("x", "ok", [k \in {"d1"} |-> d]) : d \in SvcDeviceKinds}
    \cup {SvcCoordinator("x", "ok", [k \in DevIds |-> IF k = "d1" THEN d ELSE e]) :
             d \in SvcDeviceKinds, e \in {SvcDevice(TRUE, "ok"), SvcDevice(FALSE, "ok")}}
    \cup {SvcCoordinator("x", "ok", EmptyDict),
          SvcCoordinator("x", "HalError", [k \in {"d1"} |-> SvcDevice(TRUE, "ok")])}

\* the second coordinator, if any: of a handled type or not
SvcSecondCoordinators ==
    {SvcCoordinator(t, "ok", [k \in {"d1"} |-> SvcDevice(TRUE, "ok")]) : t \in {"x", "y"}}

SvcConfigs ==
    {[c \in {"c1"} |-> a] : a \in SvcFirstCoordinators}
    \cup {[c \in CoordIds |-> IF c = "c1" THEN a ELSE b] :
             a \in SvcFirstCoordinators, b \in SvcSecondCoordinators}

\* ---- the operation
\* load_configuration(cfg), called once
SvcLoad ==
    /\ svc_err = "none"
    /\ \E order \in Orders({cid \in DOMAIN svc_cfg : svc_cfg[cid].type \in CoordTypes}) :
          LET r == SvcLoadLoop(svc_cfg, order, EmptyDict)
          IN  /\ svc_objects' = r.objs
              /\ svc_err' = r.err
    /\ UNCHANGED <<svc_cfg, dev_vars, coord_vars, serial_vars, send_vars, emit_vars,
                   netcfg_vars, broker_vars, lib_vars>>

InitSvc ==
    /\ InitDevWith(CHOOSE s \in DeviceSettings : TRUE)
    /\ InitCoordWith(CHOOSE c \in CoordSettings : TRUE, EmptyDict)
    /\ SerialAtRest /\ SendAtRest /\ EmitAtRest
    /\ NetCfgAtRest /\ BrokerAtRest /\ LibAtRest
    /\ svc_cfg \in SvcConfigs
    /\ svc_objects = EmptyDict
    /\ svc_err = "none"

NextSvc == SvcLoad

SpecSvc == InitSvc /\ [][NextSvc]_vars

(***************************************************************************)
(* Part 7 - configuration broker (cfgbroker.py)                            *)
(*                                                                         *)
(* The broker serves the configuration it loaded when it was created; the  *)
(* configuration is edited by another program, with its own configuration  *)
(* object (netcfg) written to the configuration file.                      *)
(***************************************************************************)

MaxSignals == 2         \* notify_configuration_change calls explored

\* the device unique ids of the model, as split_uid gives them
DeviceUids == {<<cid, did>> : cid \in CoordIds, did \in DevIds}

BrokerFrame ==
    UNCHANGED <<dev_vars, coord_vars, serial_vars, send_vars, emit_vars,
                netcfg_vars, svc_vars, lib_vars>>

\* BrokerObject(): "DeviceNetworkConfiguration(autoload=True)" loads the
\* configuration file; no broker if the loading raises
BrokerCreate ==
    /\ broker_cfg = None
    /\ \E order \in Orders(DOMAIN cfg_file.coordinators) :
          LET r == LoadData(cfg_file, order, EmptyDict)
          IN  broker_cfg' = IF r.err = "ok" THEN Some(r.cfg) ELSE None
    /\ UNCHANGED <<signals, broker_reply>>
    /\ BrokerFrame

\* notify_configuration_change(chgtype, resid): "self.changed(chgtype, resid)"
BrokerNotify(chgtype, resid) ==
    /\ broker_cfg # None
    /\ Len(signals) < MaxSignals
    /\ signals' = Append(signals, [chgtype |-> chgtype, resid |-> resid])
    /\ UNCHANGED <<broker_cfg, broker_reply>>
    /\ BrokerFrame

\* get_device_by_uid(uid): "self._cfg.get_device_by_uid(uid).js_dict()"
BrokerGetDeviceByUid(uid) ==
    /\ broker_cfg # None
    /\ LET cfg == Val(broker_cfg)
           found == uid[1] \in DOMAIN cfg /\ uid[2] \in DOMAIN cfg[uid[1]].devices
       IN  broker_reply' =
               Some([uid |-> uid,
                     err |-> IF found THEN "ok" ELSE "KeyError",
                     json |-> IF found
                              THEN DeviceJsDict(cfg[uid[1]].devices[uid[2]])
                              ELSE EmptyDict])
    /\ UNCHANGED <<broker_cfg, signals>>
    /\ BrokerFrame

\* a device of the stored configuration file
StoredDevice(uid) ==
    /\ uid[1] \in DOMAIN cfg_file.coordinators
    /\ uid[2] \in DOMAIN cfg_file.coordinators[uid[1]].devices

\* the requests of the clients: the addition of a device is notified once
\* the configuration holding it is stored
BrokerRequests ==
    \E uid \in DeviceUids :
        \/ StoredDevice(uid) /\ BrokerNotify("da", uid)
        \/ BrokerGetDeviceByUid(uid)

\* the configuration file holds coordinator c1 with device d1, of a known
\* type or not
BrokerSources ==
    {[top |-> "dict",
      coordinators |-> [c \in {"c1"} |-> CoordData(TRUE, OneDevice(dd))]] :
     dd \in {FullDevice, [FullDevice EXCEPT !["type"] = "x:zz"]}}

InitBroker ==
    /\ InitDevWith(CHOOSE s \in DeviceSettings : TRUE)
    /\ InitCoordWith(CHOOSE c \in CoordSettings : TRUE, EmptyDict)
    /\ SerialAtRest /\ SendAtRest /\ EmitAtRest
    /\ netcfg = EmptyDict
    /\ cfg_file \in BrokerSources
    /\ cfg_last = [op |-> "none", cid |-> "", did |-> "", newid |-> "", err |-> "none"]
    /\ cfg_ops = 0
    /\ BrokerAtRest /\ SvcAtRest /\ LibAtRest

NextBroker == BrokerCreate \/ BrokerRequests \/ CfgLoad \/ CfgStore \/ CfgMutates

SpecBroker == InitBroker /\ [][NextBroker]_vars

(***************************************************************************)
(* Claims on create_events (checked under SpecDev)                         *)
(***************************************************************************)

PrevOf(o) == IF o \in DOMAIN prev_values THEN Some(prev_values[o]) ELSE None

IndexOf(o) == CHOOSE i \in 1..Len(OutputsOrder) : OutputsOrder[i] = o

\* the time recorded for the var_name of o when the loop reaches o: the
\* time of this call when an output handled before o in the same call has
\* produced an event for that var_name, the stored time (0 if none) otherwise
RecordedTime(o, emitted) ==
    IF \E q \in emitted : /\ IndexOf(q) < IndexOf(o)
                          /\ outputs_cfg[q].varname = outputs_cfg[o].varname
    THEN dev_now
    ELSE Get(last_event_times, outputs_cfg[o].varname, 0)

\* C1: in a create_events call, an enabled output with a reading produces an
\* event iff its filtered value differs from prev(o) or the age of the last
\* event recorded for its var_name is >= events_ttl; on emission prev(o) is
\* the emitted value and last_event_time[var_name] is now; otherwise prev(o)
\* is unchanged, and last_event_time[v] changes only when an output of
\* var_name v produced an event; a disabled output or a None reading
\* produces nothing and changes nothing.
C1_CreateEventsContract ==
    [][LET values == output_values' IN DevCreateEvents(values) =>
        LET emitted == EventOutputs(dev_events')
        IN  /\ \A o \in Outputs :
                 LET cfg == outputs_cfg[o]
                     prev == PrevOf(o)
                     kept == /\ (o \in DOMAIN prev_values') = (o \in DOMAIN prev_values)
                             /\ o \in DOMAIN prev_values => prev_values'[o] = prev_values[o]
                 IN  IF ~cfg.enabled \/ values[o] = None
                     THEN o \notin emitted /\ kept
                     ELSE LET value == FilterValue(Round(Val(values[o]), cfg.prec),
                                                   prev, cfg.delta_min)
                              age == dev_now - RecordedTime(o, emitted)
                          IN  /\ o \in emitted <=>
                                    (Some(value) # prev \/ age >= events_ttl)
                              /\ o \in emitted =>
                                    /\ prev_values'[o] = value
                                    /\ last_event_times'[cfg.varname] = dev_now
                                    /\ \E i \in 1..Len(dev_events') :
                                          dev_events'[i] = [output |-> o,
                                                            var_name |-> cfg.varname,
                                                            value |-> value]
                              /\ o \notin emitted => kept
            /\ \A v \in VarNames :
                 (\A o \in emitted : outputs_cfg[o].varname # v) =>
                     /\ (v \in DOMAIN last_event_times') = (v \in DOMAIN last_event_times)
                     /\ v \in DOMAIN last_event_times =>
                            last_event_times'[v] = last_event_times[v]
      ]_vars

\* C1 witness: a call where an enabled output with a reading produced no
\* event (unchanged value, TTL not expired) while another one produced one.
C1_Witness ==
    \E o \in Outputs, q \in Outputs :
        /\ outputs_cfg[o].enabled /\ output_values[o] # None
        /\ o \in DOMAIN prev_values
        /\ o \notin EventOutputs(dev_events)
        /\ q \in EventOutputs(dev_events)

\* the event produced before the (i+1)-th event of this call for var_name v,
\* with the time it was produced at
RECURSIVE PreviousSent(_, _, _)
PreviousSent(evs, i, v) ==
    IF i < 1
    THEN IF sent[v] = None THEN None
         ELSE Some([output |-> Val(sent[v]).output, value |-> Val(sent[v]).value,
                    time |-> last_event_times[v]])
    ELSE IF evs[i].var_name = v
         THEN Some([output |-> evs[i].output, value |-> evs[i].value,
                    time |-> dev_now])
         ELSE PreviousSent(evs, i - 1, v)

C3_TtlRefreshPerOutput ==
    [][LET values == output_values' IN DevCreateEvents(values) =>
        \A o \in Outputs :
            (/\ outputs_cfg[o].enabled
             /\ values[o] # None
             /\ out_last[o] # None
             /\ dev_now - Val(out_last[o]) >= events_ttl)
            => o \in EventOutputs(dev_events')
      ]_vars

(***************************************************************************)
(* Claims on the polling worker (checked under Spec)                       *)
(***************************************************************************)

\* the PollingStats object of device d: the one the task in progress
\* updates, the one held by dev_stats otherwise (a new one if none)
DevStats(d) ==
    IF cur # None /\ Val(cur).dev = d THEN stats ELSE Get(dev_stats, d, NewStats)

\* the stats of device d when the worker started
StartStats(d) == Get(stats_file, d, NewStats)

\* the worker is running and between two polls
BetweenPolls == pc \in {"loop", "drain", "sleeping", "pausing", "done"}

\* C4: a failed poll that is the first failure of the device in the tick
\* re-enqueues the task at the start time of the tick (period 0); a failed
\* retry re-enqueues it at start time + period; a device is polled at most
\* twice within one tick.
C4_RetryOnFirstError ==
    [][/\ \A o \in Outcomes :
            PollRaises(o) =>
                LET task == Val(cur)
                IN  /\ tick_fails[task.dev] = 0 =>
                          sched_queue' = At(sched_queue, polling_start_time, task)
                    /\ tick_fails[task.dev] = 1 =>
                          sched_queue' = At(sched_queue,
                                            polling_start_time + task.period, task)
       /\ \A d \in Devs : tick_polls'[d] <= 2
      ]_vars

\* C5: no exception raised while a task is processed ends the worker.
C5_WorkerNeverCrashes == pc # "crashed"

\* C6: once stop() has returned, no event is emitted on the sensor channel.
C6_NoEventAfterStop ==
    [][stop_pc = "returned" => channel' = channel]_vars

\* C7: once stop() has been called, the worker starts no further tick.
C7_TerminationNeverLost ==
    [][stop_pc # "idle" => ~TickStart]_vars

\* C8: the schedule queue is sorted in non-decreasing when.
C8_QueueSorted ==
    \A i \in 1..Len(sched_queue), j \in 1..Len(sched_queue) :
        i < j => sched_queue[i].when <= sched_queue[j].when

\* C8 witness: the task of a device given its second chance sits at the
\* head of the queue, at the start time of a later tick, before a task
\* scheduled later.
C8_Witness ==
    /\ Len(sched_queue) = 2
    /\ sched_queue[1].task.dev \in retried
    /\ sched_queue[1].when = polling_start_time
    /\ sched_queue[1].when > StartTime
    /\ sched_queue[2].when > sched_queue[1].when

\* C9: between two polls, total_poll of a device is its value at worker
\* start plus the number of poll() invocations made for it; no counter of
\* a PollingStats decreases.
C9_TotalPollCounts ==
    /\ [](BetweenPolls =>
            \A d \in Devs :
                DevStats(d).total_poll = StartStats(d).total_poll + polls[d])
    /\ [][\A d \in Devs, f \in StatFields : DevStats(d)'[f] >= DevStats(d)[f]]_vars

\* C9 witness: a device with saved stats has been polled at least twice,
\* one poll at least having failed.
C9_Witness ==
    \E d \in Devs :
        /\ BetweenPolls
        /\ d \in DOMAIN stats_file
        /\ polls[d] >= 2
        /\ DevStats(d).total_poll = stats_file[d].total_poll + polls[d]
        /\ DevStats(d).comm_errs > stats_file[d].comm_errs

\* C10: recovered of a device grows by one when a poll of the device
\* succeeds right after a failed poll of the same device, and is unchanged
\* by every other step of the worker.
C10_RecoveredOnTransition ==
    [][pc # "spawned" =>
        \A d \in Devs :
            LET success == /\ pc = "polling"
                           /\ Val(cur).dev = d
                           /\ last_outcome'[d] = "ok"
            IN  DevStats(d)'.recovered =
                    DevStats(d).recovered
                    + (IF success /\ last_outcome[d] = "err" THEN 1 ELSE 0)
      ]_vars

\* C10 witness: a communication error followed by a successful retry in
\* the same tick: comm_errs = 1, recovered = 1, total_poll = 2 and the
\* event of the successful poll on the channel.
C10_Witness ==
    \E d \in Devs :
        /\ BetweenPolls
        /\ tick_polls[d] = 2
        /\ polls[d] = 2
        /\ DevStats(d) = [total_poll |-> 2, comm_errs |-> 1, crc_errs |-> 0,
                          unexp_errs |-> 0, recovered |-> 1]
        /\ channel[d] = 1

\* the period of the PollTask built for device d
TaskPeriod(d) == tasks[CHOOSE i \in 1..Len(tasks) : tasks[i].dev = d].period

\* every poll() invocation made for d so far has raised CommunicationError
AlwaysFailing(d) ==
    /\ polls[d] > 0
    /\ DevStats(d).comm_errs = StartStats(d).comm_errs + polls[d]

\* a tick of the worker ends without a termination request
TickEnds == DrainEnd /\ ~terminate

C13_SmallVariationBoundary ==
    [][LET values == output_values' IN DevCreateEvents(values) =>
        LET emitted == EventOutputs(dev_events')
        IN  \A o \in Outputs :
                LET cfg == outputs_cfg[o]
                IN  (/\ cfg.enabled
                     /\ values[o] # None
                     /\ o \in DOMAIN prev_values
                     /\ cfg.delta_min # None) =>
                        LET rounded == Round(Val(values[o]), cfg.prec)
                            age == dev_now - RecordedTime(o, emitted)
                        IN  IF Abs(rounded - prev_values[o]) <= Val(cfg.delta_min)
                            THEN /\ o \in emitted => age >= events_ttl
                                 /\ prev_values'[o] = prev_values[o]
                            ELSE o \in emitted
      ]_vars

\* C14 (as stated): the value of every event produced is round(raw, prec)
\* of the reading of the call that produced it.
C14_ValueIsRoundedReading ==
    [][LET values == output_values' IN DevCreateEvents(values) =>
        \A i \in 1..Len(dev_events') :
            LET e == dev_events'[i]
            IN  e.value = Round(Val(values[e.output]), outputs_cfg[e.output].prec)
      ]_vars

\* C14 (amended): the value of every event produced is round(raw, prec) of
\* the reading of the call, or, when that rounded value is within
\* delta_min(o) of prev(o) and the event is a TTL refresh, prev(o) (itself
\* a value rounded by an earlier call).
C14_ValueIsRoundedOrPrev ==
    [][LET values == output_values' IN DevCreateEvents(values) =>
        \A i \in 1..Len(dev_events') :
            LET e == dev_events'[i]
                cfg == outputs_cfg[e.output]
                rounded == Round(Val(values[e.output]), cfg.prec)
            IN  \/ e.value = rounded
                \/ /\ e.output \in DOMAIN prev_values
                   /\ cfg.delta_min # None
                   /\ e.value = prev_values[e.output]
                   /\ Abs(rounded - prev_values[e.output]) <= Val(cfg.delta_min)
                   /\ dev_now - RecordedTime(e.output, EventOutputs(dev_events'))
                        >= events_ttl
      ]_vars

\* C14 witness: a TTL refresh has produced an event whose value is not the
\* rounded reading of the call but the value kept by the filtering.
C14_Witness ==
    \E i \in 1..Len(dev_events) :
        LET e == dev_events[i]
        IN  /\ output_values[e.output] # None
            /\ e.value # Round(Val(output_values[e.output]),
                               outputs_cfg[e.output].prec)
            /\ e.value = prev_values[e.output]

(***************************************************************************)
(* More claims on the polling worker (Spec)                                *)
(***************************************************************************)

\* C15: every event created by a successful poll is emitted on the sensor
\* channel: no termination being requested, the processing of a task ends
\* with no event of its poll left unemitted.
C15_EveryEventEmitted ==
    [][(cur # None /\ cur' = None /\ ~terminate) =>
            \/ events = 0
            \/ events = 1 /\ channel' # channel
      ]_vars

\* C16: the worker consults the termination flag before each of its
\* sleeps: it starts neither the pause between two polls nor the sleep of
\* the end of a tick once the termination is requested.
C16_FlagCheckedBeforeSleep ==
    [][\A p \in {"pausing", "sleeping"} :
            (terminate /\ pc # p) => pc' # p
      ]_vars

\* C17: every PollTask built by start() has a period of at least 1 second.
C17_PeriodAtLeastOne ==
    \A i \in 1..Len(tasks) : tasks[i].period >= 1

(***************************************************************************)
(* Claims on the event manager (SpecEmit)                                  *)
(***************************************************************************)

\* the callers inside the "with self._emitLock" block
InEmitSection == {c \in Emitters : emit_pc[c] \in {"stamping", "signalling", "releasing"}}

\* C12: the emissions of two callers on one channel never interleave: at
\* most one caller is between its timestamping and the end of its
\* signalling, and on the channel every timestamping is directly followed
\* by the signalling of the same event.
C12_EmitAtomic ==
    /\ Cardinality(InEmitSection) <= 1
    /\ \A i \in 1..Len(bus) :
          bus[i].step = "stamp" =>
              /\ i = Len(bus) => bus[i].who \in InEmitSection
              /\ i < Len(bus) => /\ bus[i + 1].who = bus[i].who
                                 /\ bus[i + 1].step = "signal"
                                 /\ bus[i + 1].timestamp = bus[i].timestamp

\* C12 witness: a caller waits for the lock while the other one, which has
\* timestamped its event, has not signalled it yet, an emission of the
\* waiting caller being already on the channel.
C12_Witness ==
    \E a \in Emitters, b \in Emitters :
        /\ a # b
        /\ emit_pc[a] = "waiting"
        /\ emit_pc[b] = "signalling"
        /\ Len(bus) >= 3
        /\ bus[Len(bus)].who = b /\ bus[Len(bus)].step = "stamp"
        /\ bus[1].who = a

(***************************************************************************)
(* Claims on the serial coordinator (SpecSerial)                           *)
(***************************************************************************)

\* C18: the polling worker never starts a poll while the serial port of
\* the coordinator is not open.
C18_NoPollWhilePortClosed == [][PollNext => serial_port = "open"]_vars

\* C19: the serial port is closed only after the polling worker has been
\* told to terminate.
C19_CloseAfterWorkerStopped ==
    [][(serial_port = "open" /\ serial_port' = "none") =>
           (terminate /\ stop_pc \in {"joining", "returned"})]_vars

\* the callers between the acquisition and the release of the serial lock
InSendSection ==
    {c \in Senders : snd_pc[c] \in {"writing", "callback", "leaving", "raising"}}

\* C20: at most one send_command call is in its write and callback section,
\* which it holds the lock for, and the lock is free whenever no call is in
\* the section, whatever way the previous calls ended.
C20_SendCommandMutex ==
    /\ Cardinality(InSendSection) <= 1
    /\ \A c \in Senders : c \in InSendSection <=> serial_lock = Some(c)
    /\ InSendSection = {} => LockFree(serial_lock)

\* C20 witness: a call whose write raised and a call whose callback raised
\* have ended, and a later call holds the lock.
C20_Witness ==
    /\ Len(wire) = 3
    /\ wire[1].step = "write_error"
    /\ wire[3].step = "callback_error"
    /\ \E c \in Senders : snd_pc[c] = "writing" /\ serial_lock = Some(c)

\* C21: a send_command call given a callback, whose write has succeeded,
\* invokes the callback once with the lock held and then returns normally.
C21_CallbackInvokedOnce ==
    [][\A c \in Senders :
          (snd_pc[c] = "callback" /\ snd_pc'[c] # "callback") =>
              /\ snd_pc'[c] = "leaving"
              /\ serial_lock' = Some(c)
              /\ wire' = Append(wire, [who |-> c, step |-> "callback"])]_vars

\* C34: when stop() of a serial coordinator has returned, the termination
\* of the polling worker that start() spawned was requested, also when
\* start() failed while opening the serial port.
C34_StopTerminatesWorker ==
    (ser_pc = "stop_refused" /\ pc \notin {"none", "done", "crashed"})
        => (terminate \/ stop_pc # "idle")

(***************************************************************************)
(* Claims on the polling worker, continued (Spec)                          *)
(***************************************************************************)

\* C22: a bus error raised by an emission while no termination is requested
\* is swallowed: the worker goes on with the tick, no error is counted or
\* recorded for the device, no second chance is given and the task is
\* re-enqueued polling_start_time + period.
C22_BusErrorSwallowed ==
    [][(pc = "emit_wait" /\ pc' # pc /\ channel' = channel /\ ~terminate) =>
          LET task == Val(cur)
          IN  /\ last_outcome'[task.dev] = "bus_error"
              /\ pc' \in {"drain", "pausing"}
              /\ dev_stats'[task.dev] = stats
              /\ task.dev \notin DOMAIN errors'
              /\ retried' = retried
              /\ sched_queue' = At(sched_queue, polling_start_time + task.period, task)
      ]_vars

\* C22 witness: the emission of d1 has raised a bus error and the worker
\* polls d2, which is due in the same tick.
C22_Witness ==
    /\ last_outcome["d1"] = "bus_error"
    /\ tick_polls["d1"] = 1
    /\ pc = "polling"
    /\ Val(cur).dev = "d2"
    /\ tick_polls["d2"] = 1
    /\ ~terminate

\* C25: a poll of a device tagged invalid (poll() returns without a
\* result) yields no event and the worker goes on with the tasks of the
\* coordinator.
C25_InvalidDeviceSkipped ==
    [][(\E o \in Outcomes : PollReturnsNone(o)) =>
          /\ channel' = channel
          /\ pc' \in {"drain", "pausing"}]_vars

\* the number of schedules of the queue for a task
Scheduled(task) ==
    Cardinality({k \in 1..Len(sched_queue) : sched_queue[k].task = task})

\* C33: from the seeding of the queue on, whatever the outcomes of the polls
\* the worker handled, every poll task is in the schedule queue exactly
\* once, but the task popped and not yet given back to at(), which is not
\* in the queue.
C33_TaskConservation ==
    pc \in {"loop", "drain", "polling", "emit_call", "emit_check", "emit_wait",
            "pausing", "sleeping", "done"} =>
        /\ \A i \in 1..Len(tasks) :
              Scheduled(tasks[i]) = IF cur = Some(tasks[i]) THEN 0 ELSE 1
        /\ Len(sched_queue) = Len(tasks) - (IF cur = None THEN 0 ELSE 1)

\* C33 witness: after two polls at least, a task was put back by at() before
\* a schedule of the queue (second chance of its device) and the two tasks
\* are in the queue.
C33_Witness ==
    /\ pc = "drain"
    /\ cur = None
    /\ TotalPolls >= 2
    /\ Len(tasks) = 2
    /\ Len(sched_queue) = 2
    /\ sched_queue[1].task.dev \in retried
    /\ sched_queue[1].when < sched_queue[2].when
    /\ sched_queue[1].task # sched_queue[2].task

(***************************************************************************)
(* Claims on the device network configuration (SpecCfg)                    *)
(***************************************************************************)

\* the operation recorded in cfg_last' has just been done
CfgStep(op) == cfg_ops' # cfg_ops /\ cfg_last'.op = op

InvalidSource(data) ==
    \/ data.top # "dict"
    \/ \E cid \in DOMAIN data.coordinators :
          LET cdata == data.coordinators[cid]
          IN  \/ "type" \notin DOMAIN cdata
              \/ \E did \in DOMAIN cdata["devices"] :
                    LET ddata == cdata["devices"][did]
                    IN  \/ {"address", "type", "location"} \ DOMAIN ddata # {}
                        \/ ddata["type"] \notin DOMAIN MetadataDevices

\* C27: the loading of data which are not a dict, have a coordinator
\* without type, a device without address, type or location, or a device
\* of a type unknown to the metadata, fails.
C27_InvalidSourceRefused ==
    [][(CfgStep("load") /\ InvalidSource(cfg_file)) => cfg_last'.err # "ok"]_vars

\* C28: after a load that fails the configuration holds no coordinator of
\* the data refused.
C28_LoadAtomic ==
    [][(CfgStep("load") /\ cfg_last'.err # "ok") =>
          DOMAIN netcfg' \cap DOMAIN cfg_file.coordinators = {}]_vars

\* C29: as_json of the configuration, loaded in a configuration, gives
\* the coordinators, devices, uids and attributes of the configuration.
C29_JsonRoundTrip ==
    \A order \in Orders(DOMAIN netcfg) :
        LoadData(AsJson(netcfg), order, EmptyDict) = [err |-> "ok", cfg |-> netcfg]

\* C35: every device of a coordinator of the configuration is stored under
\* the key equal to its uid attribute.
C35_KeyIsUid ==
    \A cid \in DOMAIN netcfg :
        \A did \in DOMAIN netcfg[cid].devices :
            netcfg[cid].devices[did]["uid"] = did

(***************************************************************************)
(* Claims on the loading of the device network service (SpecSvc)           *)
(***************************************************************************)

\* whether the enabled device dcfg has a driver, whose construction succeeds
HasDriver(dcfg) ==
    /\ dcfg.enabled
    /\ dcfg.type # None
    /\ Val(dcfg.type)[2] \in DOMAIN HalDeviceClasses

Constructs(dcfg) == HasDriver(dcfg) /\ HalDeviceClasses[Val(dcfg.type)[2]].ctor = "ok"

\* C23: the loading of the devices of a coordinator registers exactly the
\* enabled devices which have a driver whose construction succeeds, counts
\* the construction failures and goes to its end whatever the devices.
C23_DevicesRegistered ==
    svc_err # "none" =>
      \A cid \in DOMAIN svc_cfg :
          LET ccfg == svc_cfg[cid]
              r == ConfigureDevices(ccfg)
          IN  /\ r.err = "ok"
              /\ r.devices = {did \in DOMAIN ccfg.devices : Constructs(ccfg.devices[did])}
              /\ r.error_count =
                     Cardinality({did \in DOMAIN ccfg.devices :
                                     HasDriver(ccfg.devices[did])
                                     /\ ~Constructs(ccfg.devices[did])})

\* C24: load_configuration of the service goes to its end, the container
\* holding every coordinator of a handled type whose configuration loads
\* and none of those whose configuration fails to load.
C24_SiblingsStillLoaded ==
    svc_err # "none" =>
      /\ svc_err = "ok"
      /\ \A cid \in DOMAIN svc_cfg :
            cid \in DOMAIN svc_objects <=>
                /\ svc_cfg[cid].type \in CoordTypes
                /\ CoordinatorLoad(svc_cfg[cid]).err = "ok"

(***************************************************************************)
(* Claims on the configuration broker (checked under SpecBroker)           *)
(***************************************************************************)

\* the device uid is in the edited configuration and in the stored file
AddedAndStored(uid) ==
    /\ uid[1] \in DOMAIN netcfg /\ uid[2] \in DOMAIN netcfg[uid[1]].devices
    /\ cfg_file = AsJson(netcfg)

Signalled(chgtype, uid) ==
    \E i \in 1..Len(signals) : signals[i] = [chgtype |-> chgtype, resid |-> uid]

\* C30: once the changed("da", uid) signal was delivered for a device added
\* to a coordinator of the configuration, get_device_by_uid(uid) asked to the
\* broker returns the JSON of this device.
C30_ChangedThenFound ==
    [][\A uid \in DeviceUids :
          (BrokerGetDeviceByUid(uid) /\ Signalled("da", uid) /\ AddedAndStored(uid))
              => /\ Val(broker_reply').err = "ok"
                 /\ Val(broker_reply').json = DeviceJsDict(netcfg[uid[1]].devices[uid[2]])]_vars

(***************************************************************************)
(* Part 8 - registry of the driver classes (hal/__init__.py,               *)
(*          hal/drivers/__init__.py)                                       *)
(*                                                                         *)
(* A driver module is given by the hal_device decorations its import       *)
(* performs, in order, and by the exception that ends the import, if any.  *)
(* A driver class is known by its module and its declared types.           *)
(***************************************************************************)

MaxModules == 2         \* number of candidate modules

RegCoordTypes == {"x", "y"}
RegDevTypes == {"t1", "t2"}

\* the modules: right ones, and ones the import of which raises, before
\* or after a first class was decorated
ModuleKinds ==
    {[regs |-> <<[ctype |-> "x", dtype |-> "t1"]>>, err |-> "none"],
     [regs |-> <<[ctype |-> "y", dtype |-> "t1"]>>, err |-> "none"],
     [regs |-> <<[ctype |-> "x", dtype |-> "t2"]>>, err |-> "none"],
     [regs |-> <<>>, err |-> "InvalidCfgFile"],
     [regs |-> <<>>, err |-> "SyntaxError"],
     [regs |-> <<[ctype |-> "x", dtype |-> "t1"]>>, err |-> "Exception"]}

ModuleLists == UNION {[1..n -> ModuleKinds] : n \in 1..MaxModules}

DriverClass(m, reg) == [module |-> m, ctype |-> reg.ctype, dtype |-> reg.dtype]

\* the exceptions of an import that the discovery loop catches
ImportCaughtCfgOnly(err) == err = "InvalidCfgFile"

ImportCaught(err) == err \in {"InvalidCfgFile", "SyntaxError", "Exception"}

\* hal_device(device_type, coordinator_type)(cls), for the decorations of
\* module m: "_global_registry[device_type] = cls"
RECURSIVE HalDeviceDecorations(_, _, _)
HalDeviceDecorations(reg, m, regs) ==
    IF regs = <<>>
    THEN reg
    ELSE HalDeviceDecorations(Put(reg, Head(regs).dtype, DriverClass(m, Head(regs))),
                              m, Tail(regs))

RegFrame ==
    UNCHANGED <<dev_vars, coord_vars, serial_vars, send_vars, emit_vars, conf_vars,
                sc_vars, ex_vars, fsa_vars>>

\* get_hal_device_classes(): the discovery runs when the registry is empty
RegCall ==
    /\ reg_pc \in {"idle", "done"}
    /\ IF registry = EmptyDict
       THEN reg_pc' = "discovering" /\ reg_next' = 1
       ELSE reg_pc' = "done" /\ reg_next' = reg_next
    /\ UNCHANGED <<reg_modules, registry, reg_loaded, reg_inst>>
    /\ RegFrame

\* importlib.import_module(modfqn) returns: the module is run, unless it is
\* already imported
RegImport ==
    /\ reg_pc = "discovering"
    /\ reg_next <= Len(reg_modules)
    /\ reg_modules[reg_next].err = "none"
    /\ registry' = IF reg_next \in reg_loaded
                   THEN registry
                   ELSE HalDeviceDecorations(registry, reg_next,
                                             reg_modules[reg_next].regs)
    /\ reg_loaded' = reg_loaded \cup {reg_next}
    /\ reg_next' = reg_next + 1
    /\ UNCHANGED <<reg_modules, reg_pc, reg_inst>>
    /\ RegFrame

\* importlib.import_module(modfqn) raises, after the decorations the module
\* made before
RegImportRaises ==
    /\ reg_pc = "discovering"
    /\ reg_next <= Len(reg_modules)
    /\ reg_modules[reg_next].err # "none"
    /\ registry' = HalDeviceDecorations(registry, reg_next,
                                        reg_modules[reg_next].regs)
    /\ IF ImportCaught(reg_modules[reg_next].err)
       THEN reg_pc' = reg_pc /\ reg_next' = reg_next + 1
       ELSE reg_pc' = "raised" /\ reg_next' = reg_next
    /\ UNCHANGED <<reg_modules, reg_loaded, reg_inst>>
    /\ RegFrame

\* end of the loop: "return _global_registry"
RegReturn ==
    /\ reg_pc = "discovering"
    /\ reg_next > Len(reg_modules)
    /\ reg_pc' = "done"
    /\ UNCHANGED <<reg_modules, registry, reg_next, reg_loaded, reg_inst>>
    /\ RegFrame

\* _configure_devices, for a device of type "ctype:dtype":
\* "if devtype in devclasses: class_ = devclasses[devtype]"
RegLookup(ctype, dtype) ==
    /\ reg_pc = "done"
    /\ reg_inst' = Some([ctype |-> ctype, dtype |-> dtype,
                         class |-> IF dtype \in DOMAIN registry
                                   THEN Some(registry[dtype]) ELSE None])
    /\ UNCHANGED <<reg_modules, registry, reg_pc, reg_next, reg_loaded>>
    /\ RegFrame

RegLookups == \E ctype \in RegCoordTypes, dtype \in RegDevTypes : RegLookup(ctype, dtype)

InitReg ==
    /\ InitDevWith(CHOOSE s \in DeviceSettings : TRUE)
    /\ InitCoordWith(CHOOSE c \in CoordSettings : TRUE, EmptyDict)
    /\ SerialAtRest /\ SendAtRest /\ EmitAtRest /\ ConfAtRest /\ ScAtRest /\ ExAtRest /\ FsaAtRest
    /\ reg_modules \in ModuleLists
    /\ registry = EmptyDict
    /\ reg_pc = "idle"
    /\ reg_next = 1
    /\ reg_loaded = {}
    /\ reg_inst = None

NextReg == RegCall \/ RegImport \/ RegImportRaises \/ RegReturn \/ RegLookups

SpecReg == InitReg /\ [][NextReg]_vars

(***************************************************************************)
(* Part 9 - service container (service.py)                                 *)
(*                                                                         *)
(* start() and every terminate() run on the main thread: terminate() is    *)
(* called by the framework object from the main loop, by the SIGTERM       *)
(* handler, which Python runs on the main thread on top of the code it     *)
(* interrupts, and by start() when KeyboardInterrupt leaves the loop.      *)
(* The calls in progress are the frames of a stack; only the innermost     *)
(* one moves.                                                              *)
(***************************************************************************)

MaxObjects == 2         \* service objects added by the application
MaxTerminates == 2      \* terminate requests explored

\* evtmgr.SERVICE_NAME and the name of another service
ServiceNames == {"evtmgr", "svc"}

\* the framework object (no start, no stop) and the application objects,
\* the start() of which returns or raises
FrameworkObject == [start |-> "none", stop |-> FALSE]

ServiceObjects == {[start |-> "ok", stop |-> TRUE], [start |-> "raises", stop |-> TRUE]}

ObjectLists ==
    UNION {{<<FrameworkObject>> \o q : q \in [1..n -> ServiceObjects]} :
           n \in 1..MaxObjects}

\* sysutils.emit_service_state_event(svc_name, state)
EmitServiceState(evts, svc_name, state) ==
    IF svc_name = "evtmgr" THEN evts ELSE Append(evts, state)

\* "for so in [objects with a stop method]: so.stop()" over the objects idx
StopAll(stops, idx) ==
    [k \in DOMAIN stops |->
        IF (\E j \in 1..Len(idx) : idx[j] = k) /\ sc_objs[k].stop
        THEN stops[k] + 1 ELSE stops[k]]

ScFrame ==
    UNCHANGED <<dev_vars, coord_vars, serial_vars, send_vars, emit_vars, conf_vars,
                reg_vars, ex_vars, fsa_vars>>

Top == sc_frames[Len(sc_frames)]

SetTop(f) == [sc_frames EXCEPT ![Len(sc_frames)] = f]

Pop == SubSeq(sc_frames, 1, Len(sc_frames) - 1)

\* the innermost call waits for the lock
Blocked == sc_frames # <<>> /\ Top.pc = "acquire" /\ ~LockFree(sc_lock)

\* start(): the container is not running, the 'starting' event is emitted
ScStart ==
    /\ sc_pc = "init"
    /\ ~sc_loop
    /\ sc_events' = EmitServiceState(sc_events, sc_name, "starting")
    /\ sc_terminating' = FALSE
    /\ sc_started' = <<>>
    /\ sc_i' = 1
    /\ sc_pc' = "starting"
    /\ UNCHANGED <<sc_name, sc_objs, sc_loop, sc_quits, sc_lock, sc_frames,
                   sc_calls, sc_stops>>
    /\ ScFrame

\* start(): the object has no start method, or its start() returns
ScStartObject ==
    /\ sc_pc = "starting"
    /\ sc_i <= Len(sc_objs)
    /\ sc_objs[sc_i].start # "raises"
    /\ sc_started' = Append(sc_started, sc_i)
    /\ sc_i' = sc_i + 1
    /\ UNCHANGED <<sc_name, sc_objs, sc_pc, sc_loop, sc_quits, sc_terminating,
                   sc_lock, sc_frames, sc_calls, sc_stops, sc_events>>
    /\ ScFrame

\* start(): start() of the object raises; the started objects are stopped
\* and the process exits
ScStartObjectRaises ==
    /\ sc_pc = "starting"
    /\ sc_i <= Len(sc_objs)
    /\ sc_objs[sc_i].start = "raises"
    /\ sc_stops' = StopAll(sc_stops, sc_started)
    /\ sc_pc' = "exited"
    /\ UNCHANGED <<sc_name, sc_objs, sc_i, sc_started, sc_loop, sc_quits,
                   sc_terminating, sc_lock, sc_frames, sc_calls, sc_events>>
    /\ ScFrame

\* start(): the objects are started; the loop is created, the SIGTERM
\* handler installed, 'running' emitted and the loop is run
ScRun ==
    /\ sc_pc = "starting"
    /\ sc_i > Len(sc_objs)
    /\ sc_loop' = TRUE
    /\ sc_events' = EmitServiceState(sc_events, sc_name, "running")
    /\ sc_pc' = "run"
    /\ UNCHANGED <<sc_name, sc_objs, sc_i, sc_started, sc_quits, sc_terminating,
                   sc_lock, sc_frames, sc_calls, sc_stops>>
    /\ ScFrame

\* a terminate request begins: a new innermost terminate() call
ScCall(by) ==
    /\ sc_calls < MaxTerminates
    /\ sc_calls' = sc_calls + 1
    /\ sc_frames' = Append(sc_frames, [by |-> by, pc |-> "check", k |-> 1])

\* _FrameworkServiceObject.terminate, dispatched by the main loop
ScBusTerminate ==
    /\ sc_pc = "run"
    /\ sc_frames = <<>>
    /\ ScCall("bus")
    /\ UNCHANGED <<sc_name, sc_objs, sc_pc, sc_i, sc_started, sc_loop, sc_quits,
                   sc_terminating, sc_lock, sc_stops, sc_events>>
    /\ ScFrame

\* __sigterm_handler, run on top of what the main thread is doing unless it
\* waits for a lock: "if self._loop: self.terminate()"
ScSigTerm ==
    /\ sc_pc \in {"run", "kbd"}
    /\ ~Blocked
    /\ sc_loop
    /\ ScCall("sig")
    /\ UNCHANGED <<sc_name, sc_objs, sc_pc, sc_i, sc_started, sc_loop, sc_quits,
                   sc_terminating, sc_lock, sc_stops, sc_events>>
    /\ ScFrame

\* start(): KeyboardInterrupt leaves the running loop, terminate() is called
ScKeyboardInterrupt ==
    /\ sc_pc = "run"
    /\ sc_frames = <<>>
    /\ sc_quits = 0
    /\ ScCall("kbd")
    /\ sc_pc' = "kbd"
    /\ UNCHANGED <<sc_name, sc_objs, sc_i, sc_started, sc_loop, sc_quits,
                   sc_terminating, sc_lock, sc_stops, sc_events>>
    /\ ScFrame

\* start(): another exception leaves the loop: 'aborting', CSTBoxError
ScLoopRaises ==
    /\ sc_pc = "run"
    /\ sc_frames = <<>>
    /\ sc_quits = 0
    /\ sc_events' = EmitServiceState(sc_events, sc_name, "aborting")
    /\ sc_pc' = "raised"
    /\ UNCHANGED <<sc_name, sc_objs, sc_i, sc_started, sc_loop, sc_quits,
                   sc_terminating, sc_lock, sc_frames, sc_calls, sc_stops>>
    /\ ScFrame

\* start(): the loop was quit and returns, or the terminate() called for
\* KeyboardInterrupt has returned: 'stopped' is emitted
ScStopped ==
    /\ sc_frames = <<>>
    /\ \/ sc_pc = "run" /\ sc_quits > 0
       \/ sc_pc = "kbd"
    /\ sc_events' = EmitServiceState(sc_events, sc_name, "stopped")
    /\ sc_pc' = "ended"
    /\ UNCHANGED <<sc_name, sc_objs, sc_i, sc_started, sc_loop, sc_quits,
                   sc_terminating, sc_lock, sc_frames, sc_calls, sc_stops>>
    /\ ScFrame

\* terminate(): "if self._loop:", else the call is ignored
TermCheck ==
    /\ sc_frames # <<>>
    /\ Top.pc = "check"
    /\ sc_frames' = IF sc_loop THEN SetTop([Top EXCEPT !.pc = "acquire"]) ELSE Pop
    /\ UNCHANGED <<sc_name, sc_objs, sc_pc, sc_i, sc_started, sc_loop, sc_quits,
                   sc_terminating, sc_lock, sc_calls, sc_stops, sc_events>>
    /\ ScFrame

\* terminate(): "with self._terminate_lock:", a threading.Lock
TermAcquire ==
    /\ sc_frames # <<>>
    /\ Top.pc = "acquire"
    /\ LockFree(sc_lock)
    /\ sc_lock' = Some(Len(sc_frames))
    /\ sc_frames' = SetTop([Top EXCEPT !.pc = "locked"])
    /\ UNCHANGED <<sc_name, sc_objs, sc_pc, sc_i, sc_started, sc_loop, sc_quits,
                   sc_terminating, sc_calls, sc_stops, sc_events>>
    /\ ScFrame

\* terminate(): "if not self._terminating:", the flag is set and 'stopping'
\* emitted
TermEnter ==
    /\ sc_frames # <<>>
    /\ Top.pc = "locked"
    /\ IF ~sc_terminating
       THEN /\ sc_terminating' = TRUE
            /\ sc_events' = EmitServiceState(sc_events, sc_name, "stopping")
            /\ sc_frames' = SetTop([Top EXCEPT !.pc = "stops", !.k = 1])
       ELSE /\ sc_frames' = SetTop([Top EXCEPT !.pc = "release"])
            /\ UNCHANGED <<sc_terminating, sc_events>>
    /\ UNCHANGED <<sc_name, sc_objs, sc_pc, sc_i, sc_started, sc_loop, sc_quits,
                   sc_lock, sc_calls, sc_stops>>
    /\ ScFrame

\* terminate(): stop() of the next object that has one
TermStop ==
    /\ sc_frames # <<>>
    /\ Top.pc = "stops"
    /\ Top.k <= Len(sc_objs)
    /\ sc_stops' = StopAll(sc_stops, <<Top.k>>)
    /\ sc_frames' = SetTop([Top EXCEPT !.k = @ + 1])
    /\ UNCHANGED <<sc_name, sc_objs, sc_pc, sc_i, sc_started, sc_loop, sc_quits,
                   sc_terminating, sc_lock, sc_calls, sc_events>>
    /\ ScFrame

\* terminate(): the loop is quit and forgotten, the flag reset
TermQuit ==
    /\ sc_frames # <<>>
    /\ Top.pc = "stops"
    /\ Top.k > Len(sc_objs)
    /\ sc_quits' = sc_quits + 1
    /\ sc_loop' = FALSE
    /\ sc_terminating' = FALSE
    /\ sc_frames' = SetTop([Top EXCEPT !.pc = "release"])
    /\ UNCHANGED <<sc_name, sc_objs, sc_pc, sc_i, sc_started, sc_lock, sc_calls,
                   sc_stops, sc_events>>
    /\ ScFrame

\* terminate(): the lock is released and the call returns
TermRelease ==
    /\ sc_frames # <<>>
    /\ Top.pc = "release"
    /\ sc_lock' = None
    /\ sc_frames' = Pop
    /\ UNCHANGED <<sc_name, sc_objs, sc_pc, sc_i, sc_started, sc_loop, sc_quits,
                   sc_terminating, sc_calls, sc_stops, sc_events>>
    /\ ScFrame

InitSc ==
    /\ InitDevWith(CHOOSE s \in DeviceSettings : TRUE)
    /\ InitCoordWith(CHOOSE c \in CoordSettings : TRUE, EmptyDict)
    /\ SerialAtRest /\ SendAtRest /\ EmitAtRest /\ ConfAtRest /\ RegAtRest /\ ExAtRest /\ FsaAtRest
    /\ sc_name \in ServiceNames
    /\ sc_objs \in ObjectLists
    /\ sc_pc = "init"
    /\ sc_i = 1
    /\ sc_started = <<>>
    /\ sc_loop = FALSE
    /\ sc_quits = 0
    /\ sc_terminating = FALSE
    /\ sc_lock = None
    /\ sc_frames = <<>>
    /\ sc_calls = 0
    /\ sc_stops = [k \in 1..Len(sc_objs) |-> 0]
    /\ sc_events = <<>>

NextSc ==
    \/ ScStart
    \/ ScStartObject
    \/ ScStartObjectRaises
    \/ ScRun
    \/ ScBusTerminate
    \/ ScSigTerm
    \/ ScKeyboardInterrupt
    \/ ScLoopRaises
    \/ ScStopped
    \/ TermCheck
    \/ TermAcquire
    \/ TermEnter
    \/ TermStop
    \/ TermQuit
    \/ TermRelease

SpecSc == InitSc /\ [][NextSc]_vars

(***************************************************************************)
(* Part 10 - export job (export.py)                                        *)
(*                                                                         *)
(* The callbacks prepare, export_events and send_data return or raise      *)
(* ExportError, as their contract states; an outcome is "ok" (or the       *)
(* number of events exported) or the subcode given to ExportError.         *)
(***************************************************************************)

MaxTry == 2             \* greatest max_try

ERR_NONE == 0
ERR_PREPARE == 100
ERR_EXPORT_EVENTS == 200
ERR_SEND == 300

\* the subcodes given to ExportError(msg, subcode)
RawSubcodes == {0, 7, 105, -1}

Raised == [raises : {TRUE}, subcode : RawSubcodes]
Returned(values) == [raises : {FALSE}, value : values]

\* ExportError.__init__: "self._subcode = subcode % 100"
Subcode(raw) == raw % 100

JobInputs ==
    [max_try : 1..MaxTry,
     prepare : Returned({0}) \cup Raised,
     export_events : Returned({0, 2}) \cup Raised,
     send_data : [1..MaxTry -> Returned({0}) \cup Raised]]

\* run(): "if cur_try < max_try:", the attempt is made again
RetryAlways(cur_try, max_try) == TRUE

Retry(cur_try, max_try) == cur_try < max_try

ExFrame ==
    UNCHANGED <<dev_vars, coord_vars, serial_vars, send_vars, emit_vars, conf_vars,
                reg_vars, sc_vars, fsa_vars>>

\* run(max_try): the parameters are valid, prepare() is called
ExPrepare ==
    /\ ex_pc = "prepare"
    /\ IF ex_in.prepare.raises
       THEN /\ ex_error' = Some(Subcode(ex_in.prepare.subcode))
            /\ ex_code' = ERR_PREPARE
            /\ ex_pc' = "except"
       ELSE /\ ex_error' = None
            /\ ex_code' = ERR_EXPORT_EVENTS
            /\ ex_pc' = "export"
    /\ UNCHANGED <<ex_in, ex_try, ex_sends, ex_ret>>
    /\ ExFrame

\* "cnt = self.export_events()" and "if cnt:"
ExExportEvents ==
    /\ ex_pc = "export"
    /\ IF ex_in.export_events.raises
       THEN /\ ex_error' = Some(Subcode(ex_in.export_events.subcode))
            /\ ex_pc' = "except"
            /\ UNCHANGED <<ex_code, ex_try>>
       ELSE IF ex_in.export_events.value # 0
       THEN /\ ex_code' = ERR_SEND
            /\ ex_try' = 1
            /\ ex_pc' = "send"
            /\ UNCHANGED ex_error
       ELSE /\ ex_pc' = "else"
            /\ UNCHANGED <<ex_code, ex_try, ex_error>>
    /\ UNCHANGED <<ex_in, ex_sends, ex_ret>>
    /\ ExFrame

\* "self.send_data()" returns: "break"
ExSendData ==
    /\ ex_pc = "send"
    /\ ~ex_in.send_data[ex_try].raises
    /\ ex_sends' = ex_sends + 1
    /\ ex_pc' = "else"
    /\ UNCHANGED <<ex_in, ex_code, ex_try, ex_error, ex_ret>>
    /\ ExFrame

\* "self.send_data()" raises ExportError: a new attempt is made after the
\* delay, or the error is raised again when the attempts are exhausted
ExSendDataRaises ==
    /\ ex_pc = "send"
    /\ ex_in.send_data[ex_try].raises
    /\ ex_sends' = ex_sends + 1
    /\ IF Retry(ex_try, ex_in.max_try)
       THEN /\ ex_try' = ex_try + 1
            /\ ex_pc' = IF ex_try + 1 <= ex_in.max_try THEN "send" ELSE "else"
            /\ UNCHANGED ex_error
       ELSE /\ ex_error' = Some(Subcode(ex_in.send_data[ex_try].subcode))
            /\ ex_pc' = "except"
            /\ UNCHANGED ex_try
    /\ UNCHANGED <<ex_in, ex_code, ex_ret>>
    /\ ExFrame

\* "except ExportError as e:": the subcode is added to the code of the step
ExFails ==
    /\ ex_pc = "except"
    /\ ex_ret' = Some(ex_code + Val(ex_error))
    /\ ex_pc' = "returned"
    /\ UNCHANGED <<ex_in, ex_code, ex_try, ex_sends, ex_error>>
    /\ ExFrame

\* the else clause of the try: ERR_NONE is returned
ExCompletes ==
    /\ ex_pc = "else"
    /\ ex_error' = None
    /\ ex_code' = ERR_NONE
    /\ ex_ret' = Some(ERR_NONE)
    /\ ex_pc' = "returned"
    /\ UNCHANGED <<ex_in, ex_try, ex_sends>>
    /\ ExFrame

InitEx ==
    /\ InitDevWith(CHOOSE s \in DeviceSettings : TRUE)
    /\ InitCoordWith(CHOOSE c \in CoordSettings : TRUE, EmptyDict)
    /\ SerialAtRest /\ SendAtRest /\ EmitAtRest /\ ConfAtRest
    /\ RegAtRest /\ ScAtRest /\ FsaAtRest
    /\ ex_in \in JobInputs
    /\ ex_pc = "prepare"
    /\ ex_code = ERR_PREPARE
    /\ ex_try = 0
    /\ ex_sends = 0
    /\ ex_error = None
    /\ ex_ret = None

NextEx ==
    \/ ExPrepare
    \/ ExExportEvents
    \/ ExSendData
    \/ ExSendDataRaises
    \/ ExFails
    \/ ExCompletes

SpecEx == InitEx /\ [][NextEx]_vars

(***************************************************************************)
(* Part 11 - timed automaton in simulated time (timedfsa.py)               *)
(*                                                                         *)
(* The callback given to start_timer records the timer that fired.         *)
(***************************************************************************)

MaxFsaOps == 4          \* calls made on the automaton
MaxFsaTime == 3         \* greatest simulated time

FsaDelays == {1, 2}

\* _SimulatedTimer(delay, function, now), now being clock(), then start()
NewTimer(id, delay, clock) ==
    [id |-> id, expiration_time |-> clock + delay, started |-> TRUE,
     canceled |-> FALSE, done |-> FALSE]

\* _SimulatedTimer.set_clock(clock): raises when the timer is done, fires
\* the callback when the expiration time is reached
TimerSetClock(timer, clock) ==
    IF timer.done
    THEN [err |-> "RuntimeError", timer |-> timer, fires |-> FALSE]
    ELSE IF timer.started /\ ~timer.canceled /\ clock >= timer.expiration_time
    THEN [err |-> "none", timer |-> [timer EXCEPT !.done = TRUE], fires |-> TRUE]
    ELSE [err |-> "none", timer |-> timer, fires |-> FALSE]

FsaFrame ==
    UNCHANGED <<dev_vars, coord_vars, serial_vars, send_vars, emit_vars, conf_vars,
                reg_vars, sc_vars, ex_vars>>

FsaCalled(err) ==
    /\ fsa_ops < MaxFsaOps
    /\ fsa_ops' = fsa_ops + 1
    /\ fsa_err' = err

\* start_timer(delay, function): the running timer is cancelled and
\* forgotten, a new one is created and started
FsaStartTimer(delay) ==
    /\ fsa_timers' = fsa_timers + 1
    /\ fsa_timer' = Some(NewTimer(fsa_timers + 1, delay, fsa_time))
    /\ FsaCalled("none")
    /\ UNCHANGED <<fsa_time, fsa_fired>>
    /\ FsaFrame

\* cancel_timer()
FsaCancelTimer ==
    /\ fsa_timer' = None
    /\ FsaCalled("none")
    /\ UNCHANGED <<fsa_time, fsa_timers, fsa_fired>>
    /\ FsaFrame

\* the setter of simulated_time: the time is set, then given to the timer
SimulatedTimeSet(value) ==
    /\ fsa_time' = value
    /\ IF fsa_timer = None
       THEN /\ FsaCalled("none")
            /\ UNCHANGED <<fsa_timer, fsa_fired>>
       ELSE LET r == TimerSetClock(Val(fsa_timer), value)
            IN  /\ FsaCalled(r.err)
                /\ fsa_timer' = Some(r.timer)
                /\ fsa_fired' = IF r.fires
                                THEN Append(fsa_fired, r.timer.id)
                                ELSE fsa_fired
    /\ UNCHANGED fsa_timers
    /\ FsaFrame

\* set_clock(now), now being value
FsaSetClock(value) ==
    /\ value \in 0..MaxFsaTime
    /\ SimulatedTimeSet(value)

\* advance_clock(delay), delay being a number of seconds
FsaAdvanceClock(delay) ==
    /\ fsa_time + delay <= MaxFsaTime
    /\ SimulatedTimeSet(fsa_time + delay)

InitFsa ==
    /\ InitDevWith(CHOOSE s \in DeviceSettings : TRUE)
    /\ InitCoordWith(CHOOSE c \in CoordSettings : TRUE, EmptyDict)
    /\ SerialAtRest /\ SendAtRest /\ EmitAtRest /\ ConfAtRest
    /\ RegAtRest /\ ScAtRest /\ ExAtRest
    /\ fsa_time = 0
    /\ fsa_timer = None
    /\ fsa_timers = 0
    /\ fsa_fired = <<>>
    /\ fsa_err = "none"
    /\ fsa_ops = 0

NextFsa ==
    \/ \E delay \in FsaDelays : FsaStartTimer(delay)
    \/ FsaCancelTimer
    \/ \E value \in 0..MaxFsaTime : FsaSetClock(value)
    \/ \E delay \in FsaDelays : FsaAdvanceClock(delay)

SpecFsa == InitFsa /\ [][NextFsa]_vars

(***************************************************************************)
(* Claims on the driver registry (checked under SpecReg)                   *)
(***************************************************************************)

\* the modules imported without error by the discovery
GoodModules == {m \in 1..Len(reg_modules) : reg_modules[m].err = "none"}

\* a module imported without error declares a driver for ctype:dtype
Registered(ctype, dtype) ==
    \E m \in GoodModules :
        \E k \in 1..Len(reg_modules[m].regs) :
            reg_modules[m].regs[k] = [ctype |-> ctype, dtype |-> dtype]

\* C31: a driver registered for ctype:dtype is retrievable whatever the
\* other coordinator types the device type has a driver for: the class found
\* for a device of type ctype:dtype was registered for the coordinator type
\* ctype.
C31_DriverOfSameCoordinatorType ==
    (reg_inst # None /\ Registered(Val(reg_inst).ctype, Val(reg_inst).dtype))
        => /\ Val(reg_inst).class # None
           /\ Val(Val(reg_inst).class).ctype = Val(reg_inst).ctype

\* the modules that decorate a class for the device type dtype
Decorating(dtype) ==
    {m \in 1..Len(reg_modules) :
        \E k \in 1..Len(reg_modules[m].regs) : reg_modules[m].regs[k].dtype = dtype}

\* the greatest element of a non empty set of numbers
Last(S) == CHOOSE m \in S : \A n \in S : n <= m

\* C32 as stated: after the discovery, the registry holds every registration
\* of every module that loaded without error.
C32_GoodRegistrationsHeld ==
    reg_pc = "done" =>
        \A m \in GoodModules :
            \A k \in 1..Len(reg_modules[m].regs) :
                LET reg == reg_modules[m].regs[k]
                IN  /\ reg.dtype \in DOMAIN registry
                    /\ registry[reg.dtype] = DriverClass(m, reg)

\* C32, amended: the discovery is never aborted by a module the load of
\* which raises; after it, every module without error is loaded and every
\* device type such a module registered is in the registry, bound to a class
\* of the last module, in name order, that decorated a class for it.
C32_DiscoveryNotAborted ==
    /\ reg_pc # "raised"
    /\ reg_pc = "done" =>
        /\ GoodModules \subseteq reg_loaded
        /\ \A m \in GoodModules :
              \A k \in 1..Len(reg_modules[m].regs) :
                  LET dtype == reg_modules[m].regs[k].dtype
                  IN  /\ dtype \in DOMAIN registry
                      /\ registry[dtype].dtype = dtype
                      /\ registry[dtype].module = Last(Decorating(dtype))

\* the discovery is over, a module raised and a later one is registered
C32_Witness ==
    /\ reg_pc = "done"
    /\ \E m1 \in 1..Len(reg_modules), m2 \in GoodModules :
          /\ m1 < m2
          /\ reg_modules[m1].err # "none"
          /\ \E dtype \in DOMAIN registry : registry[dtype].module = m2

(***************************************************************************)
(* Claims on the service container (checked under SpecSc)                  *)
(***************************************************************************)

\* C36: whatever the terminate requests, stop() of each service object is
\* called at most once, the main loop is quit at most once, and no
\* terminate() call waits for ever for the terminate lock.
C36_TerminateIdempotent ==
    /\ sc_pc \in {"run", "kbd", "ended"} =>
          \A k \in DOMAIN sc_stops : sc_stops[k] <= 1
    /\ sc_quits <= 1
    /\ ~(Blocked /\ Val(sc_lock) < Len(sc_frames))

\* the state events are a beginning of starting, running, stopping, stopped
\* or of starting, running, aborting
InOrder(evts) ==
    \E full \in {<<"starting", "running", "stopping", "stopped">>,
                 <<"starting", "running", "aborting">>} :
        /\ Len(evts) <= Len(full)
        /\ \A k \in 1..Len(evts) : evts[k] = full[k]

\* C37: for a service other than the event manager, the state events are
\* emitted in the order starting, running, stopping, stopped, and when the
\* run of the container is over the last event is 'stopped' or 'aborting'.
C37_StateEventsInOrder ==
    sc_name # "evtmgr" =>
        /\ InOrder(sc_events)
        /\ (sc_pc \in {"ended", "exited", "raised"} =>
               /\ sc_events # <<>>
               /\ sc_events[Len(sc_events)] \in {"stopped", "aborting"})

(***************************************************************************)
(* Claims on the export job (checked under SpecEx)                         *)
(***************************************************************************)

\* the attempts of send_data that max_try allows, and those that succeed
Attempts == 1..ex_in.max_try
Successes == {k \in Attempts : ~ex_in.send_data[k].raises}

\* the code of a step plus the subcode of its error, which is in 0..99
StepError(ret, code, raw) ==
    /\ ret - code \in 0..99
    /\ (ret - code - raw) % 100 = 0

\* C38: when run() has returned, send_data was called at most max_try times
\* and not after its first success, and not at all when prepare or
\* export_events failed or no event was exported; the value returned is 0
\* when every step done succeeded, and the code of the failing step (100,
\* 200, 300) plus the subcode of its error otherwise.
C38_RunResult ==
    ex_pc = "returned" =>
        LET ret == Val(ex_ret)
        IN  IF ex_in.prepare.raises
            THEN ex_sends = 0 /\ StepError(ret, 100, ex_in.prepare.subcode)
            ELSE IF ex_in.export_events.raises
            THEN ex_sends = 0 /\ StepError(ret, 200, ex_in.export_events.subcode)
            ELSE IF ex_in.export_events.value = 0
            THEN ex_sends = 0 /\ ret = 0
            ELSE IF Successes # {}
            THEN /\ ret = 0
                 /\ ex_sends \in Successes
                 /\ \A k \in Successes : ex_sends <= k
            ELSE /\ ex_sends = ex_in.max_try
                 /\ StepError(ret, 300, ex_in.send_data[ex_in.max_try].subcode)

\* C38 witness: run() returned 0 after a failed attempt of send_data and a
\* successful one.
C38_Witness ==
    /\ ex_pc = "returned"
    /\ ex_ret = Some(0)
    /\ ex_sends = 2
    /\ ex_in.send_data[1].raises

(***************************************************************************)
(* Claims on the timed automaton (checked under SpecFsa)                   *)
(***************************************************************************)

\* C39: a timer fires its callback once at most, and a set_clock or
\* advance_clock call made once the timer has fired returns without raising.
C39_ClockAfterFiring ==
    /\ \A i \in 1..Len(fsa_fired), j \in 1..Len(fsa_fired) :
          i # j => fsa_fired[i] # fsa_fired[j]
    /\ fsa_err = "none"

====
